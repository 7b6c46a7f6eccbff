-------------------------- MODULE Sessions_proofs ---------------------------
(***************************************************************************)
(* Sessions: the inductive invariant behind NoDanglingSession and          *)
(* BindingIsGranted.  A user id travels from an accepted login through the *)
(* answer to the client, from there into the header of later messages and  *)
(* so to the binding; TracesToLogin says that each stage is covered by     *)
(* `granted`.                                                              *)
(***************************************************************************)
EXTENDS Sessions, SequenceTheorems, TLAPS

Covered(c, u, g) == u # NoUser => <<c, u>> \in g

BindingsTraced   == \A c \in Conn : Covered(c, boundUserId[c], granted)
IdentitiesTraced == \A c \in Conn : Covered(c, identity[c], granted)
HeadersTraced    ==
  \A c \in Conn : \A i \in 1..Len(toServer[c]) : Covered(c, toServer[c][i].senderId, granted)
AnswersTraced    ==
  \A c \in Conn : \A i \in 1..Len(toClient[c]), u \in User :
    toClient[c][i] = LoginReply(u) => <<c, u>> \in granted

TracesToLogin == BindingsTraced /\ IdentitiesTraced /\ HeadersTraced /\ AnswersTraced

IInv == TypeOK /\ NoDanglingSession /\ TracesToLogin

----------------------------------------------------------------------------
(* Taking the first element off a queue leaves elements of the queue.      *)
LEMMA TailOfQueue ==
  ASSUME NEW S, NEW q \in Seq(S), q # <<>>
  PROVE  /\ Head(q) \in S /\ Head(q) = q[1] /\ Len(q) >= 1 /\ Len(q) \in Nat
         /\ Tail(q) \in Seq(S)
         /\ \A i \in 1..Len(Tail(q)) : i + 1 \in 1..Len(q) /\ Tail(q)[i] = q[i + 1]
  <1>1. Len(q) \in Nat /\ Len(q) >= 1
    BY EmptySeq, LenProperties
  <1>2. Tail(q) \in Seq(S) /\ Len(Tail(q)) = Len(q) - 1
    BY HeadTailProperties
  <1>3. \A i \in 1..Len(Tail(q)) : i + 1 \in 1..Len(q) /\ Tail(q)[i] = q[i + 1]
    BY <1>1, <1>2, HeadTailProperties
  <1>4. QED
    BY <1>1, <1>2, <1>3, HeadTailProperties

(* Appending to a queue leaves its elements where they are.                *)
LEMMA EndOfQueue ==
  ASSUME NEW S, NEW q \in Seq(S), NEW m \in S
  PROVE  /\ Append(q, m) \in Seq(S) /\ Len(q) \in Nat
         /\ Len(Append(q, m)) = Len(q) + 1
         /\ Append(q, m)[Len(q) + 1] = m
         /\ \A i \in 1..Len(q) : Append(q, m)[i] = q[i]
  BY AppendProperties, LenProperties

(* What the client adopts is the answer to an accepted login.              *)
LEMMA AcceptedLogin ==
  /\ \A r \in Reply : Adopts(r) => r.user \in User /\ r = LoginReply(r.user)
  /\ \A u, v \in User : LoginReply(u) = LoginReply(v) => u = v
  /\ \A u, v \in User : LoginRefused(u) # LoginReply(v)
  /\ \A u \in User, ok \in BOOLEAN : LogoutReply(ok) # LoginReply(u)
  <1>1. ASSUME NEW r \in Reply, Adopts(r)
        PROVE  r.user \in User /\ r = LoginReply(r.user)
    <2>1. r \in [type : {"LOGIN_RESPONSE"}, success : BOOLEAN, user : User]
      BY <1>1 DEF Adopts, Reply
    <2>2. r.success = TRUE
      BY <1>1, <2>1 DEF Adopts
    <2>3. QED
      BY <2>1, <2>2 DEF LoginReply
  <1>2. ASSUME NEW u, NEW v, NEW ok
        PROVE  /\ LoginReply(u) = LoginReply(v) => u = v
               /\ LoginRefused(u) # LoginReply(v)
               /\ LogoutReply(ok) # LoginReply(u)
    <2>1. LoginReply(u).user = u /\ LoginReply(v).user = v
      BY DEF LoginReply
    <2>2. LoginReply(v).success = TRUE /\ LoginRefused(u).success = FALSE
      BY DEF LoginReply, LoginRefused
    <2>3. LogoutReply(ok).type = "LOGOUT_RESPONSE" /\ LoginReply(u).type = "LOGIN_RESPONSE"
      BY DEF LoginReply, LogoutReply
    <2>4. QED
      BY <2>1, <2>2, <2>3
  <1>3. QED
    BY <1>1, <1>2

(* No connections and no entries at the start.                             *)
LEMMA InitIInv == Init => IInv
  <1> SUFFICES ASSUME Init PROVE IInv
    OBVIOUS
  <1>1. TypeOK
    BY SessionsAssumption DEF Init, TypeOK
  <1>2. NoDanglingSession
    BY DEF Init, NoDanglingSession
  <1>3. TracesToLogin
    <2>1. BindingsTraced /\ IdentitiesTraced
      BY DEF Init, BindingsTraced, IdentitiesTraced, Covered
    <2>2. HeadersTraced
      BY DEF Init, HeadersTraced
    <2>3. AnswersTraced
      BY DEF Init, AnswersTraced
    <2>4. QED
      BY <2>1, <2>2, <2>3 DEF TracesToLogin
  <1>4. QED
    BY <1>1, <1>2, <1>3 DEF IInv

----------------------------------------------------------------------------
(* The client puts its own identity into the header of what it sends.      *)
LEMMA SendStep ==
  ASSUME IInv, NEW c \in Conn, NEW msg \in ClientMessage, Send(c, msg),
         msg.senderId = identity[c], atLogin' \subseteq Conn
  PROVE  IInv'
  <1> USE DEF IInv
  <1>1. TypeOK'
    <2>1. toServer[c] \in Seq(ClientMessage)
      BY DEF TypeOK
    <2>2. Append(toServer[c], msg) \in Seq(ClientMessage)
      BY <2>1, EndOfQueue
    <2>3. toServer' \in [Conn -> Seq(ClientMessage)]
      BY <2>2 DEF Send, TypeOK
    <2>4. QED
      BY <2>3 DEF Send, TypeOK, server
  <1>2. NoDanglingSession'
    BY DEF NoDanglingSession, Send, server
  <1>3. TracesToLogin'
    <2>1. /\ granted' = granted /\ boundUserId' = boundUserId /\ identity' = identity
          /\ toClient' = toClient
          /\ toServer' = [toServer EXCEPT ![c] = Append(@, msg)]
      BY DEF Send, server
    <2>2. ASSUME NEW d \in Conn, NEW i \in 1..Len(toServer'[d])
          PROVE  Covered(d, toServer'[d][i].senderId, granted')
      <3>1. CASE d # c
        <4>1. toServer'[d] = toServer[d]
          BY <2>1, <3>1 DEF TypeOK
        <4>2. QED
          BY <2>1, <4>1 DEF TracesToLogin, HeadersTraced
      <3>2. CASE d = c
        <4>1. toServer'[c] = Append(toServer[c], msg) /\ toServer[c] \in Seq(ClientMessage)
          BY <2>1 DEF TypeOK
        <4>2. /\ Len(toServer[c]) \in Nat
              /\ Len(toServer'[c]) = Len(toServer[c]) + 1
              /\ toServer'[c][Len(toServer[c]) + 1] = msg
              /\ \A k \in 1..Len(toServer[c]) : toServer'[c][k] = toServer[c][k]
          BY <4>1, EndOfQueue
        <4>3. CASE i \in 1..Len(toServer[c])
          <5>1. toServer'[d][i] = toServer[d][i]
            BY <3>2, <4>2, <4>3
          <5>2. QED
            BY <2>1, <3>2, <4>3, <5>1 DEF TracesToLogin, HeadersTraced
        <4>4. CASE i = Len(toServer[c]) + 1
          <5>1. toServer'[d][i] = msg
            BY <3>2, <4>2, <4>4
          <5>2. QED
            BY <2>1, <3>2, <5>1 DEF TracesToLogin, IdentitiesTraced
        <4>5. QED
          BY <3>2, <4>2, <4>3, <4>4
      <3>3. QED
        BY <3>1, <3>2
    <2>3. HeadersTraced'
      BY <2>2 DEF HeadersTraced
    <2>4. BindingsTraced' /\ IdentitiesTraced' /\ AnswersTraced'
      BY <2>1 DEF TracesToLogin, BindingsTraced, IdentitiesTraced, AnswersTraced
    <2>5. QED
      BY <2>3, <2>4 DEF TracesToLogin
  <1>4. QED
    BY <1>1, <1>2, <1>3

(* The client's identity comes from accepted logins only.                  *)
LEMMA ReceiveStep ==
  ASSUME IInv, NEW c \in Conn, ReceiveReply(c)
  PROVE  IInv'
  <1> USE DEF IInv
  <1> DEFINE reply == Head(toClient[c])
  <1>1. /\ toClient[c] # <<>> /\ toClient[c] \in Seq(Reply)
        /\ toClient' = [toClient EXCEPT ![c] = Tail(@)]
        /\ toServer' = toServer /\ granted' = granted /\ boundUserId' = boundUserId
        /\ open' = open /\ sessions' = sessions /\ rows' = rows
    BY DEF ReceiveReply, server, TypeOK
  <1>2. /\ reply \in Reply /\ reply = toClient[c][1]
        /\ Len(toClient[c]) >= 1 /\ Len(toClient[c]) \in Nat
        /\ Tail(toClient[c]) \in Seq(Reply)
        /\ \A i \in 1..Len(Tail(toClient[c])) :
             i + 1 \in 1..Len(toClient[c]) /\ Tail(toClient[c])[i] = toClient[c][i + 1]
    BY <1>1, TailOfQueue
  <1>3. \/ /\ Adopts(reply)
           /\ identity' = [identity EXCEPT ![c] = reply.user]
           /\ atLogin' = atLogin \ {c}
        \/ /\ identity' = [identity EXCEPT ![c] = NoUser]
           /\ atLogin' = atLogin \cup {c}
        \/ identity' = identity /\ atLogin' = atLogin
    BY DEF ReceiveReply, client
  <1>4. TypeOK'
    <2>1. Adopts(reply) => reply.user \in User
      BY <1>2, AcceptedLogin
    <2>2. identity' \in [Conn -> User \cup {NoUser}] /\ atLogin' \subseteq Conn
      BY <1>3, <2>1 DEF TypeOK
    <2>3. toClient' \in [Conn -> Seq(Reply)]
      BY <1>1, <1>2 DEF TypeOK
    <2>4. QED
      BY <1>1, <2>2, <2>3 DEF TypeOK
  <1>5. NoDanglingSession'
    BY <1>1 DEF NoDanglingSession
  <1>6. ASSUME NEW d \in Conn PROVE Covered(d, identity'[d], granted')
    <2>1. Adopts(reply) => <<c, reply.user>> \in granted
      BY <1>2, AcceptedLogin DEF TracesToLogin, AnswersTraced
    <2>2. QED
      BY <1>1, <1>3, <2>1 DEF TracesToLogin, IdentitiesTraced, Covered, TypeOK
  <1>7. ASSUME NEW d \in Conn, NEW i \in 1..Len(toClient'[d]), NEW u \in User,
               toClient'[d][i] = LoginReply(u)
        PROVE  <<d, u>> \in granted'
    <2>1. PICK k \in 1..Len(toClient[d]) : toClient'[d][i] = toClient[d][k]
      <3>1. CASE d # c
        <4>1. toClient'[d] = toClient[d]
          BY <1>1, <3>1 DEF TypeOK
        <4>2. QED
          BY <4>1
      <3>2. CASE d = c
        <4>1. toClient'[d] = Tail(toClient[c])
          BY <1>1, <3>2 DEF TypeOK
        <4>2. QED
          BY <1>2, <3>2, <4>1
      <3>3. QED
        BY <3>1, <3>2
    <2>2. QED
      BY <1>1, <1>7, <2>1 DEF TracesToLogin, AnswersTraced
  <1>8. TracesToLogin'
    <2>1. IdentitiesTraced' /\ AnswersTraced'
      BY <1>6, <1>7 DEF IdentitiesTraced, AnswersTraced
    <2>2. BindingsTraced' /\ HeadersTraced'
      BY <1>1 DEF TracesToLogin, BindingsTraced, HeadersTraced
    <2>3. QED
      BY <2>1, <2>2 DEF TracesToLogin
  <1>9. QED
    BY <1>4, <1>5, <1>8

----------------------------------------------------------------------------
(* A new connection has no history.                                        *)
LEMMA AcceptStep ==
  ASSUME IInv, NEW c \in Conn, acceptClient(c)
  PROVE  IInv'
  <1>1. TypeOK'
    BY DEF IInv, TypeOK, acceptClient
  <1>2. NoDanglingSession'
    BY DEF IInv, NoDanglingSession, acceptClient
  <1>3. TracesToLogin'
    BY DEF IInv, TracesToLogin, BindingsTraced, IdentitiesTraced, HeadersTraced,
           AnswersTraced, acceptClient
  <1>4. QED
    BY <1>1, <1>2, <1>3 DEF IInv

(* Closing clears the one entry that can lead to the connection.           *)
LEMMA CloseStep ==
  ASSUME IInv, NEW c \in Conn, closeConnection(c)
  PROVE  IInv'
  <1> USE DEF IInv
  <1>1. TypeOK'
    BY DEF TypeOK, closeConnection
  <1>2. NoDanglingSession'
    <2> SUFFICES ASSUME NEW u \in User, sessions'[u] # NoConn
                 PROVE  sessions'[u] \in open' /\ boundUserId'[sessions'[u]] = u
      BY DEF NoDanglingSession
    <2>1. sessions'[u] = sessions[u] /\ u # boundUserId[c]
      BY DEF closeConnection
    <2>2. sessions[u] \in open /\ boundUserId[sessions[u]] = u /\ sessions[u] \in Conn
      BY <2>1 DEF NoDanglingSession, TypeOK
    <2>3. QED
      BY <2>1, <2>2 DEF closeConnection, TypeOK
  <1>3. ASSUME NEW d \in Conn
        PROVE  \/ /\ boundUserId'[d] = NoUser /\ identity'[d] = NoUser
                  /\ toServer'[d] = <<>> /\ toClient'[d] = <<>>
               \/ /\ boundUserId'[d] = boundUserId[d] /\ identity'[d] = identity[d]
                  /\ toServer'[d] = toServer[d] /\ toClient'[d] = toClient[d]
                  /\ \A u : <<d, u>> \in granted => <<d, u>> \in granted'
    <2>1. CASE d = c
      BY <2>1 DEF closeConnection, TypeOK
    <2>2. CASE d # c
      <3>1. \A u : <<d, u>> \in granted => <<d, u>> \in granted'
        BY <2>2 DEF closeConnection
      <3>2. QED
        BY <2>2, <3>1 DEF closeConnection, TypeOK
    <2>3. QED
      BY <2>1, <2>2
  <1>4. TracesToLogin'
    <2>1. BindingsTraced' /\ IdentitiesTraced'
      BY <1>3 DEF TracesToLogin, BindingsTraced, IdentitiesTraced, Covered
    <2>2. HeadersTraced'
      BY <1>3 DEF TracesToLogin, HeadersTraced, Covered
    <2>3. AnswersTraced'
      BY <1>3 DEF TracesToLogin, AnswersTraced
    <2>4. QED
      BY <2>1, <2>2, <2>3 DEF TracesToLogin
  <1>5. QED
    BY <1>1, <1>2, <1>4

(* Binding happens once for a connection, to a covered user id.            *)
LEMMA BindStep ==
  ASSUME IInv, NEW c \in Conn, NEW s \in User \cup {NoUser}, Covered(c, s, granted),
         c \in open, open' = open, BindSender(c, s)
  PROVE  /\ boundUserId' \in [Conn -> User \cup {NoUser}]
         /\ sessions' \in [User -> Conn \cup {NoConn}]
         /\ NoDanglingSession'
         /\ \A d \in Conn : Covered(d, boundUserId'[d], granted)
  <1> USE DEF IInv
  <1>1. CASE Binds(c, s)
    <2>1. /\ s \in User /\ boundUserId[c] = NoUser
          /\ boundUserId' = [boundUserId EXCEPT ![c] = s]
          /\ sessions' = [sessions EXCEPT ![s] = c]
      BY <1>1 DEF Binds, BindSender
    <2>2. NoDanglingSession'
      <3> SUFFICES ASSUME NEW u \in User, sessions'[u] # NoConn
                   PROVE  sessions'[u] \in open /\ boundUserId'[sessions'[u]] = u
        BY DEF NoDanglingSession
      <3>1. CASE u = s
        BY <2>1, <3>1 DEF TypeOK
      <3>2. CASE u # s
        <4>1. sessions'[u] = sessions[u] /\ sessions[u] \in Conn
          BY <2>1, <3>2 DEF TypeOK
        <4>2. sessions[u] \in open /\ boundUserId[sessions[u]] = u
          BY <4>1 DEF NoDanglingSession
        <4>3. sessions[u] # c
          BY <2>1, <4>2, SessionsAssumption
        <4>4. QED
          BY <2>1, <4>1, <4>2, <4>3 DEF TypeOK
      <3>3. QED
        BY <3>1, <3>2
    <2>3. QED
      BY <2>1, <2>2 DEF TypeOK, TracesToLogin, BindingsTraced
  <1>2. CASE ~Binds(c, s)
    BY <1>2 DEF BindSender, TypeOK, NoDanglingSession, TracesToLogin, BindingsTraced
  <1>3. QED
    BY <1>1, <1>2

(* One message handled by the server.                                      *)
LEMMA HandleStep ==
  ASSUME IInv, NEW c \in Conn, processIncomingMessage(c)
  PROVE  IInv'
  <1> USE DEF IInv
  <1> DEFINE msg == Head(toServer[c])
  <1>1. /\ toServer[c] # <<>> /\ toServer[c] \in Seq(ClientMessage)
        /\ toServer' = [toServer EXCEPT ![c] = Tail(@)]
        /\ c \in open /\ open' = open /\ identity' = identity /\ atLogin' = atLogin
        /\ BindSender(c, msg.senderId)
    BY DEF processIncomingMessage, client, TypeOK
  <1>2. /\ msg \in ClientMessage /\ msg = toServer[c][1]
        /\ Len(toServer[c]) >= 1 /\ Len(toServer[c]) \in Nat
        /\ Tail(toServer[c]) \in Seq(ClientMessage)
        /\ \A i \in 1..Len(Tail(toServer[c])) :
             i + 1 \in 1..Len(toServer[c]) /\ Tail(toServer[c])[i] = toServer[c][i + 1]
    BY <1>1, TailOfQueue
  <1>3. /\ msg.senderId \in User \cup {NoUser}
        /\ msg.type = "LOGIN" => msg.user \in User
        /\ Covered(c, msg.senderId, granted)
    <2>1. Covered(c, msg.senderId, granted)
      BY <1>2 DEF TracesToLogin, HeadersTraced
    <2>2. QED
      BY <1>2, <2>1 DEF ClientMessage
  <1>4. /\ boundUserId' \in [Conn -> User \cup {NoUser}]
        /\ sessions' \in [User -> Conn \cup {NoConn}]
        /\ NoDanglingSession'
        /\ \A d \in Conn : Covered(d, boundUserId'[d], granted)
    BY <1>1, <1>3, BindStep
  <1>5. /\ rows' \subseteq Token /\ granted' \subseteq Conn \X User
        /\ granted \subseteq granted'
        /\ \/ toClient' = toClient
           \/ \E r \in Reply :
                /\ toClient' = [toClient EXCEPT ![c] = Append(@, r)]
                /\ \A u \in User : r = LoginReply(u) => <<c, u>> \in granted'
    <2>1. CASE msg.type = "LOGIN" /\ handleLogin(c, msg.user)
      <3>1. NewToken(msg.user, c) \in Token
        BY <1>3, <2>1 DEF NewToken, Token
      <3>2. LoginReply(msg.user) \in Reply /\ LoginRefused(msg.user) \in Reply
        BY <1>3, <2>1 DEF LoginReply, LoginRefused, Reply
      <3>3. CASE /\ rows' = rows \cup {NewToken(msg.user, c)}
                 /\ granted' = granted \cup {<<c, msg.user>>}
                 /\ toClient' = [toClient EXCEPT ![c] = Append(@, LoginReply(msg.user))]
        <4>1. \A u \in User : LoginReply(msg.user) = LoginReply(u) => <<c, u>> \in granted'
          BY <1>3, <2>1, <3>3, AcceptedLogin
        <4>2. rows' \subseteq Token /\ granted' \subseteq Conn \X User
          BY <1>3, <2>1, <3>1, <3>3 DEF TypeOK
        <4>3. QED
          BY <3>2, <3>3, <4>1, <4>2
      <3>4. CASE /\ UNCHANGED <<rows, granted>>
                 /\ toClient' = [toClient EXCEPT ![c] = Append(@, LoginRefused(msg.user))]
        <4>1. \A u \in User : LoginRefused(msg.user) # LoginReply(u)
          BY <1>3, <2>1, AcceptedLogin
        <4>2. rows' \subseteq Token /\ granted' \subseteq Conn \X User
          BY <3>4 DEF TypeOK
        <4>3. QED
          BY <3>2, <3>4, <4>1, <4>2
      <3>5. QED
        BY <2>1, <3>3, <3>4 DEF handleLogin
    <2>2. CASE msg.type = "LOGOUT" /\ handleLogout(c, msg.token)
      <3>1. \A ok \in BOOLEAN : LogoutReply(ok) \in Reply /\ \A u \in User : LogoutReply(ok) # LoginReply(u)
        BY AcceptedLogin DEF LogoutReply, Reply
      <3>2. rows' \subseteq Token /\ granted' \subseteq Conn \X User /\ granted' = granted
        BY <2>2 DEF handleLogout, TypeOK
      <3>3. QED
        BY <2>2, <3>1, <3>2 DEF handleLogout
    <2>3. CASE UNCHANGED <<rows, granted, toClient>>
      BY <2>3 DEF TypeOK
    <2>4. QED
      BY <2>1, <2>2, <2>3 DEF processIncomingMessage
  <1>6. toClient' \in [Conn -> Seq(Reply)]
    <2>1. \A r \in Reply : Append(toClient[c], r) \in Seq(Reply)
      BY EndOfQueue DEF TypeOK
    <2>2. QED
      BY <1>5, <2>1 DEF TypeOK
  <1>7. TypeOK'
    <2>1. toServer' \in [Conn -> Seq(ClientMessage)]
      BY <1>1, <1>2 DEF TypeOK
    <2>2. QED
      BY <1>1, <1>4, <1>5, <1>6, <2>1 DEF TypeOK
  <1>8. ASSUME NEW d \in Conn, NEW i \in 1..Len(toServer'[d])
        PROVE  Covered(d, toServer'[d][i].senderId, granted')
    <2>1. PICK k \in 1..Len(toServer[d]) : toServer'[d][i] = toServer[d][k]
      <3>1. CASE d # c
        <4>1. toServer'[d] = toServer[d]
          BY <1>1, <3>1 DEF TypeOK
        <4>2. QED
          BY <4>1
      <3>2. CASE d = c
        <4>1. toServer'[d] = Tail(toServer[c])
          BY <1>1, <3>2 DEF TypeOK
        <4>2. QED
          BY <1>2, <3>2, <4>1
      <3>3. QED
        BY <3>1, <3>2
    <2>2. QED
      BY <1>5, <2>1 DEF TracesToLogin, HeadersTraced, Covered
  <1>9. ASSUME NEW d \in Conn, NEW i \in 1..Len(toClient'[d]), NEW u \in User,
               toClient'[d][i] = LoginReply(u)
        PROVE  <<d, u>> \in granted'
    <2>1. CASE \E k \in 1..Len(toClient[d]) : toClient'[d][i] = toClient[d][k]
      BY <1>5, <1>9, <2>1 DEF TracesToLogin, AnswersTraced
    <2>2. CASE d # c \/ toClient' = toClient
      <3>1. toClient'[d] = toClient[d]
        BY <1>5, <2>2 DEF TypeOK
      <3>2. QED
        BY <2>1, <3>1
    <2>3. CASE d = c /\ toClient' # toClient
      <3>1. PICK r \in Reply :
              /\ toClient' = [toClient EXCEPT ![c] = Append(@, r)]
              /\ \A v \in User : r = LoginReply(v) => <<c, v>> \in granted'
        BY <1>5, <2>3
      <3>2. toClient'[c] = Append(toClient[c], r) /\ toClient[c] \in Seq(Reply)
        BY <3>1 DEF TypeOK
      <3>3. /\ Len(toClient[c]) \in Nat
            /\ Len(toClient'[c]) = Len(toClient[c]) + 1
            /\ toClient'[c][Len(toClient[c]) + 1] = r
            /\ \A k \in 1..Len(toClient[c]) : toClient'[c][k] = toClient[c][k]
        BY <3>2, EndOfQueue
      <3>4. CASE i \in 1..Len(toClient[c])
        BY <2>1, <2>3, <3>3, <3>4
      <3>5. CASE i = Len(toClient[c]) + 1
        BY <1>9, <2>3, <3>1, <3>3, <3>5
      <3>6. QED
        BY <2>3, <3>3, <3>4, <3>5
    <2>4. QED
      BY <2>2, <2>3
  <1>10. TracesToLogin'
    <2>1. BindingsTraced' /\ IdentitiesTraced'
      BY <1>1, <1>4, <1>5 DEF TracesToLogin, BindingsTraced, IdentitiesTraced, Covered
    <2>2. HeadersTraced' /\ AnswersTraced'
      BY <1>8, <1>9 DEF HeadersTraced, AnswersTraced
    <2>3. QED
      BY <2>1, <2>2 DEF TracesToLogin
  <1>11. QED
    BY <1>4, <1>7, <1>10
----------------------------------------------------------------------------
(* Every click, message and broken connection keeps the invariant.         *)
LEMMA NextIInv == IInv /\ [Next]_vars => IInv'
  <1> SUFFICES ASSUME IInv, [Next]_vars PROVE IInv'
    OBVIOUS
  <1>1. CASE Next
    <2> SUFFICES ASSUME NEW c \in Conn,
                        \/ \E u \in User : SendLogin(c, u)
                        \/ SendLogout(c)
                        \/ SendRequest(c)
                        \/ ReceiveReply(c)
                        \/ acceptClient(c)
                        \/ processIncomingMessage(c)
                        \/ closeConnection(c)
                 PROVE  IInv'
      BY <1>1 DEF Next
    <2>0. identity[c] \in User \cup {NoUser} /\ atLogin \subseteq Conn
      BY DEF IInv, TypeOK
    <2>1. ASSUME NEW u \in User, SendLogin(c, u) PROVE IInv'
      <3>1. Login(identity[c], u) \in ClientMessage /\ Login(identity[c], u).senderId = identity[c]
        BY <2>0 DEF Login, ClientMessage
      <3>2. Send(c, Login(identity[c], u)) /\ atLogin' \subseteq Conn
        BY <2>0, <2>1 DEF SendLogin
      <3>3. QED
        BY <3>1, <3>2, SendStep
    <2>2. CASE SendLogout(c)
      <3> DEFINE m == Logout(identity[c], HeaderToken(NewToken(identity[c], c)))
      <3>1. identity[c] \in User
        BY <2>0, <2>2 DEF SendLogout
      <3>2. HeaderToken(NewToken(identity[c], c)) \in Token
        BY <3>1 DEF HeaderToken, NewToken, Token
      <3>3. m \in ClientMessage /\ m.senderId = identity[c]
        BY <3>1, <3>2 DEF Logout, ClientMessage
      <3>4. Send(c, m) /\ atLogin' \subseteq Conn
        BY <2>0, <2>2 DEF SendLogout
      <3> HIDE DEF m
      <3>5. QED
        BY <3>3, <3>4, SendStep
    <2>3. CASE SendRequest(c)
      <3>1. identity[c] \in User
        BY <2>0, <2>3 DEF SendRequest
      <3>2. Request(identity[c]) \in ClientMessage /\ Request(identity[c]).senderId = identity[c]
        BY <3>1 DEF Request, ClientMessage
      <3>3. Send(c, Request(identity[c])) /\ atLogin' \subseteq Conn
        BY <2>0, <2>3 DEF SendRequest
      <3>4. QED
        BY <3>2, <3>3, SendStep
    <2>4. CASE ReceiveReply(c)
      BY <2>4, ReceiveStep
    <2>5. CASE acceptClient(c)
      BY <2>5, AcceptStep
    <2>6. CASE processIncomingMessage(c)
      BY <2>6, HandleStep
    <2>7. CASE closeConnection(c)
      BY <2>7, CloseStep
    <2>8. QED
      BY <2>1, <2>2, <2>3, <2>4, <2>5, <2>6, <2>7
  <1>2. CASE UNCHANGED vars
    <2>1. /\ UNCHANGED <<open, boundUserId, sessions, rows, granted>>
          /\ UNCHANGED <<toServer, toClient, identity, atLogin>>
      BY <1>2 DEF vars, server, client
    <2>2. TypeOK' /\ NoDanglingSession'
      BY <2>1 DEF IInv, TypeOK, NoDanglingSession
    <2>3. BindingsTraced' /\ IdentitiesTraced' /\ HeadersTraced' /\ AnswersTraced'
      BY <2>1 DEF IInv, TracesToLogin, BindingsTraced, IdentitiesTraced, HeadersTraced, AnswersTraced
    <2>4. QED
      BY <2>2, <2>3 DEF IInv, TracesToLogin
  <1>3. QED
    BY <1>1, <1>2

(* For any number of connections and users, and messages of any user under *)
(* way at once: the state has its type, every entry of SessionManager      *)
(* leads to an open connection bound to that user, and every user id on    *)
(* its way to a binding stems from an accepted login.                      *)
THEOREM InductiveInvariant == Spec => []IInv
  BY InitIInv, NextIInv, PTL DEF Spec

(* SessionManager never hands out a deleted handler.                       *)
THEOREM SessionsLeadToOpenConnections == Spec => []NoDanglingSession
  <1>1. IInv => NoDanglingSession
    BY DEF IInv
  <1>2. QED
    BY <1>1, InductiveInvariant, PTL

(* A connection is bound to a user only after a login of that user on it.  *)
THEOREM BindingsAreGranted == Spec => []BindingIsGranted
  <1>1. IInv => BindingIsGranted
    BY DEF IInv, TracesToLogin, BindingsTraced, Covered, BindingIsGranted
  <1>2. QED
    BY <1>1, InductiveInvariant, PTL
=============================================================================
