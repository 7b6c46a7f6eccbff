------------------------------ MODULE Sessions ------------------------------
(***************************************************************************)
(* Who is logged in on which connection: the poll loop's connections,      *)
(* ConnectionHandler::boundUserId, SessionManager, the sessions table, and *)
(* the client's idea of its own identity, with LOGIN, LOGOUT and any other *)
(* request in flight between them.  One client process has one connection  *)
(* and ends with it: the client never reconnects.                          *)
(*                                                                         *)
(* Left out: passwords (a login may fail for any reason), signup, and the  *)
(* expiry of tokens, which no code that runs looks at.  The answer to a    *)
(* signup sets the user id of the client's session, but not the one that   *)
(* AuthSender puts into its headers; nothing else sends before a login,    *)
(* which sets both.                                                        *)
(***************************************************************************)
EXTENDS Integers, Sequences

CONSTANTS
  Conn,        (* connections, each with its ConnectionHandler             *)
  User,        (* user ids                                                 *)
  NoUser,      (* the user id 0                                            *)
  NoConn,      (* nullptr                                                  *)
  MaxInFlight  (* bound on the messages under way on one connection        *)

ASSUME SessionsAssumption ==
  /\ NoUser \notin User
  /\ NoConn \notin Conn
  /\ MaxInFlight \in Nat

VARIABLES
  open,         (* connections accepted and not closed                     *)
  boundUserId,  (* of each ConnectionHandler                               *)
  sessions,     (* SessionManager::sessions; NoConn without an entry       *)
  rows,         (* tokens in table sessions                                *)
  toServer,     (* bytes under way, as whole messages                      *)
  toClient,
  identity,     (* ClientSession::userId and AuthSender::userId            *)
  atLogin,      (* clients that show the login screen                      *)
  granted       (* history: logins the server has accepted, until close    *)

server == <<open, boundUserId, sessions, rows, granted>>
client == <<identity, atLogin>>
vars   == <<server, toServer, toClient, client>>

(* generateToken: 32 random bytes written as 64 hexadecimal digits.        *)
Token == [user : User, conn : Conn, length : {32, 64}]
NewToken(u, c) == [user |-> u, conn |-> c, length |-> 64]

(* setToken: the header has room for 32 characters.                        *)
HeaderToken(t) == [t EXCEPT !.length = 32]

Login(from, u)   == [type |-> "LOGIN", senderId |-> from, user |-> u]
Logout(from, t)  == [type |-> "LOGOUT", senderId |-> from, token |-> t]
Request(from)    == [type |-> "REQUEST", senderId |-> from]
LoginReply(u)    == [type |-> "LOGIN_RESPONSE", success |-> TRUE, user |-> u]
LoginRefused(u)  == [type |-> "LOGIN_RESPONSE", success |-> FALSE, user |-> u]
LogoutReply(ok)  == [type |-> "LOGOUT_RESPONSE", success |-> ok]

Init ==
  /\ open = {}
  /\ boundUserId = [c \in Conn |-> NoUser]
  /\ sessions = [u \in User |-> NoConn]
  /\ rows = {}
  /\ toServer = [c \in Conn |-> <<>>] /\ toClient = [c \in Conn |-> <<>>]
  /\ identity = [c \in Conn |-> NoUser]
  /\ atLogin = {}
  /\ granted = {}

----------------------------------------------------------------------------
(* The client.                                                             *)

Send(c, msg) ==
  /\ c \in open
  /\ Len(toServer[c]) + Len(toClient[c]) < MaxInFlight
  /\ toServer' = [toServer EXCEPT ![c] = Append(@, msg)]
  /\ UNCHANGED <<server, toClient, identity>>

SendLogin(c, u) ==
  /\ c \in atLogin
  /\ Send(c, Login(identity[c], u))
  /\ UNCHANGED atLogin

(* The lobby waits for the answer before it shows the login screen, the    *)
(* list of rooms does not.                                                 *)
SendLogout(c) ==
  /\ c \notin atLogin
  /\ identity[c] # NoUser
  /\ Send(c, Logout(identity[c], HeaderToken(NewToken(identity[c], c))))
  /\ atLogin' \in {atLogin, atLogin \cup {c}}

(* Chat, friends, rooms, cards: every other message of a logged-in client. *)
SendRequest(c) ==
  /\ c \notin atLogin
  /\ identity[c] # NoUser
  /\ Send(c, Request(identity[c]))
  /\ UNCHANGED atLogin

(* Wrong: the user id is taken from any answer to a login.                 *)
AdoptsAnyReply(reply) == reply.type = "LOGIN_RESPONSE"

Adopts(reply) == reply.type = "LOGIN_RESPONSE" /\ reply.success

ReceiveReply(c) ==
  LET reply == Head(toClient[c])
  IN  /\ toClient[c] # <<>>
      /\ toClient' = [toClient EXCEPT ![c] = Tail(@)]
      /\ \/ /\ Adopts(reply)
            /\ identity' = [identity EXCEPT ![c] = reply.user]
            /\ atLogin' = atLogin \ {c}
         \/ /\ reply.type = "LOGOUT_RESPONSE" /\ reply.success
            /\ identity' = [identity EXCEPT ![c] = NoUser]
            /\ atLogin' = atLogin \cup {c}
         \/ /\ ~reply.success /\ ~Adopts(reply)
            /\ UNCHANGED client
      /\ UNCHANGED <<server, toServer>>

----------------------------------------------------------------------------
(* The server.                                                             *)

acceptClient(c) ==
  /\ c \notin open
  /\ open' = open \cup {c}
  /\ atLogin' = atLogin \cup {c}
  /\ UNCHANGED <<boundUserId, sessions, rows, granted, toServer, toClient, identity>>

(* Wrong: every message binds its sender anew.                             *)
BindsAgain(c, senderId) == senderId # NoUser

Binds(c, senderId) == boundUserId[c] = NoUser /\ senderId # NoUser

(* The first lines of processIncomingMessage.                              *)
BindSender(c, senderId) ==
  IF Binds(c, senderId)
  THEN /\ boundUserId' = [boundUserId EXCEPT ![c] = senderId]
       /\ sessions' = [sessions EXCEPT ![senderId] = c]
  ELSE UNCHANGED <<boundUserId, sessions>>

(* AuthLogic::login: the check looks at SessionManager, the effect is a    *)
(* row; the entry in SessionManager is made by the next message.           *)
handleLogin(c, u) ==
  \/ /\ sessions'[u] = NoConn
     /\ rows' = rows \cup {NewToken(u, c)}
     /\ granted' = granted \cup {<<c, u>>}
     /\ toClient' = [toClient EXCEPT ![c] = Append(@, LoginReply(u))]
  \/ /\ UNCHANGED <<rows, granted>>
     /\ toClient' = [toClient EXCEPT ![c] = Append(@, LoginRefused(u))]

(* DELETE succeeds whether a row matches or not; and it may fail.          *)
handleLogout(c, token) ==
  /\ \E ok \in BOOLEAN :
       /\ rows' = IF ok THEN rows \ {token} ELSE rows
       /\ toClient' = [toClient EXCEPT ![c] = Append(@, LogoutReply(ok))]
  /\ UNCHANGED granted

(* onReadable and processIncomingMessage for one whole message.            *)
processIncomingMessage(c) ==
  LET msg == Head(toServer[c])
  IN  /\ c \in open /\ toServer[c] # <<>>
      /\ toServer' = [toServer EXCEPT ![c] = Tail(@)]
      /\ BindSender(c, msg.senderId)
      /\ \/ msg.type = "LOGIN" /\ handleLogin(c, msg.user)
         \/ msg.type = "LOGOUT" /\ handleLogout(c, msg.token)
         \/ msg.type = "REQUEST" /\ UNCHANGED <<rows, granted, toClient>>
      /\ UNCHANGED <<open, client>>

(* The client process ends or its connection is lost: closeConnection and  *)
(* delete.  Messages not yet read are lost with it.                        *)
closeConnection(c) ==
  /\ c \in open
  /\ open' = open \ {c}
  /\ sessions' = [u \in User |-> IF u = boundUserId[c] THEN NoConn ELSE sessions[u]]
  /\ boundUserId' = [boundUserId EXCEPT ![c] = NoUser]
  /\ granted' = {g \in granted : g[1] # c}
  /\ toServer' = [toServer EXCEPT ![c] = <<>>]
  /\ toClient' = [toClient EXCEPT ![c] = <<>>]
  /\ identity' = [identity EXCEPT ![c] = NoUser]
  /\ atLogin' = atLogin \ {c}
  /\ UNCHANGED rows

Next ==
  \E c \in Conn :
    \/ \E u \in User : SendLogin(c, u)
    \/ SendLogout(c)
    \/ SendRequest(c)
    \/ ReceiveReply(c)
    \/ acceptClient(c)
    \/ processIncomingMessage(c)
    \/ closeConnection(c)

Spec == Init /\ [][Next]_vars

----------------------------------------------------------------------------
(* Properties.                                                             *)

ClientMessage ==
  [type : {"LOGIN"}, senderId : User \cup {NoUser}, user : User]
    \cup [type : {"LOGOUT"}, senderId : User, token : Token]
    \cup [type : {"REQUEST"}, senderId : User]

Reply ==
  [type : {"LOGIN_RESPONSE"}, success : BOOLEAN, user : User]
    \cup [type : {"LOGOUT_RESPONSE"}, success : BOOLEAN]

TypeOK ==
  /\ open \subseteq Conn
  /\ boundUserId \in [Conn -> User \cup {NoUser}]
  /\ sessions \in [User -> Conn \cup {NoConn}]
  /\ rows \subseteq Token
  /\ toServer \in [Conn -> Seq(ClientMessage)]
  /\ toClient \in [Conn -> Seq(Reply)]
  /\ identity \in [Conn -> User \cup {NoUser}]
  /\ atLogin \subseteq Conn
  /\ granted \subseteq Conn \X User

(* SessionManager never hands out a handler that has been deleted, and the *)
(* handler it has for a user is bound to that user: closing a connection   *)
(* clears every entry that leads to it (closeConnection, add, remove).     *)
NoDanglingSession ==
  \A u \in User : sessions[u] # NoConn =>
    sessions[u] \in open /\ boundUserId[sessions[u]] = u

(* A connection is bound only to a user whose login the server accepted on *)
(* that very connection, although the user id is taken from the header of  *)
(* a message: the client fills it from accepted answers only               *)
(* (processIncomingMessage, onLoginResponse).                              *)
BindingIsGranted ==
  \A c \in Conn : boundUserId[c] # NoUser => <<c, boundUserId[c]>> \in granted
=============================================================================
