--------------------------- MODULE PrivateChat_proofs ---------------------------
(***************************************************************************)
(* Private chat of one user: an acknowledgement is taken for the message   *)
(* it belongs to, a chat is failed by the timer of its own message, and    *)
(* the window shows what the table holds, for any number of peers, of      *)
(* messages and of looks at the flag.                                      *)
(*                                                                         *)
(* Acknowledgements: while the chat waits there is one message or one      *)
(* answer under way at most, and while it is idle there is none.  Timers:  *)
(* a thread that outlives its acknowledgement ends when it looks next.     *)
(* Window: what the client has received and what is on its way to it are   *)
(* one queue, Stream, that receiving leaves alone.  A row is in the table  *)
(* or on its way there if and only if it is in the last list under way, or *)
(* in the window when there is none, or in a message behind that.          *)
(* At the end, what liveness leaves to fairness: the thread that ends the  *)
(* wait is alive and its time gets shorter, and nothing holds up the end   *)
(* of the receiver.                                                        *)
(***************************************************************************)
EXTENDS PrivateChat, SequenceTheorems, TLAPS

(* Types.                                                                  *)

Person == Peer \cup {Me}

RowType == {r \in [from : Person, to : Person, n : Nat] : r.from = Me \/ r.to = Me}

RowBag == UNION {[D -> Nat \ {0}] : D \in SUBSET RowType}

ListRequest == [type : {"PRIVATE_CHAT_HISTORY_REQUEST"}, peer : Peer]

Request ==
  [type : {"FRIEND_LIST_REQUEST"}] \cup ListRequest \cup [type : {"CHAT_DIRECT"}, peer : Peer, n : Nat]

Event ==
  [type : {"FRIEND_LIST_RESPONSE", "DISCONNECT"}] \cup [type : {"CHAT_DIRECT_ACK"}, n : Nat]
    \cup [type : {"CHAT_DIRECT"}, from : Peer, n : Nat]
    \cup [type : {"PRIVATE_CHAT_HISTORY_RESPONSE"}, rows : RowBag]

TypeOK ==
  /\ toServer \in Seq(Request) /\ toMe \in Seq(Event) /\ events \in Seq(Event)
  /\ screen \in {"Chat", "Lobby"} /\ callbacks \in {"none", "set", "gone"}
  /\ selectedFriendId \in Peer \cup {NoPeer}
  /\ chatBubbles \in RowBag /\ privateChats \in RowBag
  /\ chatState \in {"IDLE", "WAIT_ACK", "FAILED"} /\ timers \in [Mine -> Nat]
  /\ typed \in Nat /\ theirs \in Nat

----------------------------------------------------------------------------
(* Acknowledgements.                                                       *)

Has(q, t) == \E i \in 1..Len(q) : q[i].type = t

(* At most one message of type t, and that is message n.                   *)
Sole(q, t, n) ==
  \A i, j \in 1..Len(q) : q[i].type = t => q[i].n = n /\ (q[j].type = t => i = j)

Unanswered == Has(toServer, "CHAT_DIRECT")
Arrives == Has(toMe, "CHAT_DIRECT_ACK")
Waits == Has(events, "CHAT_DIRECT_ACK")

OneAnswer ==
  /\ program # "runs" => chatState = "IDLE"
  /\ program = "runs" /\ chatState = "IDLE" => ~Unanswered /\ ~Arrives /\ ~Waits
  /\ chatState = "WAIT_ACK" =>
       /\ Sole(toServer, "CHAT_DIRECT", awaited)
       /\ Sole(toMe, "CHAT_DIRECT_ACK", awaited)
       /\ Sole(events, "CHAT_DIRECT_ACK", awaited)
       /\ Unanswered => ~Arrives /\ ~Waits
       /\ Arrives => ~Waits

----------------------------------------------------------------------------
(* Timers.                                                                 *)

OwnTimers ==
  /\ ~overtaken => \A n \in Mine : timers[n] # Off => n = awaited
  /\ chatState = "IDLE" => ~ackTimerActive /\ \A n \in Mine : timers[n] # Off => n \in unaware

----------------------------------------------------------------------------
(* The window and the table.                                               *)

Alive == program = "runs" /\ connected /\ serverOpen

Stream == events \o toMe

(* The rows a message brings to the window.                                *)
Brings(m) ==
  CASE m.type = "CHAT_DIRECT" -> {Row(m.from, Me, m.n)}
    [] m.type = "PRIVATE_CHAT_HISTORY_RESPONSE" -> DOMAIN m.rows
    [] OTHER -> {}

(* Every row is there once, and not from the future.                       *)
Numbers(b, mine, others) ==
  /\ DOMAIN b \subseteq RowType
  /\ b = [r \in DOMAIN b |-> 1]
  /\ \A r \in DOMAIN b : (r.from = Me => r.n <= mine) /\ (r.to = Me => r.n <= others)

(* What the peers write comes in the order of its numbers.                 *)
Older(rows, m) == m.type = "CHAT_DIRECT" => \A r \in rows : r.to = Me => r.n < m.n

StreamOrder(s) ==
  \A i \in 1..Len(s) :
    /\ s[i].type = "CHAT_DIRECT" => s[i].from \in Peer /\ s[i].n \in Nat /\ s[i].n <= theirs
    /\ s[i].type = "PRIVATE_CHAT_HISTORY_RESPONSE" => Numbers(s[i].rows, typed, theirs)
    /\ Older(DOMAIN chatBubbles, s[i])
    /\ \A j \in 1..Len(s) : i < j => Older(Brings(s[i]), s[j])

(* What the user writes is saved in that order.                            *)
RequestOrder(q) ==
  \A i \in 1..Len(q) : q[i].type = "CHAT_DIRECT" =>
    /\ q[i].n \in Nat /\ q[i].n <= typed
    /\ \A r \in DOMAIN privateChats : r.from = Me => r.n < q[i].n
    /\ \A j \in 1..Len(q) : i < j /\ q[j].type = "CHAT_DIRECT" => q[i].n < q[j].n

Numbered ==
  /\ Numbers(privateChats, typed, theirs) /\ Numbers(chatBubbles, typed, theirs)
  /\ StreamOrder(Stream) /\ RequestOrder(toServer)

Between(p) == {r \in RowType : {r.from, r.to} = {Me, p}}

(* The row is in a message on its way to the table, or to the window       *)
(* behind place i.                                                         *)
Going(q, r) ==
  \E j \in 1..Len(q) : q[j].type = "CHAT_DIRECT" /\ r = Row(Me, q[j].peer, q[j].n)

Coming(s, i, r) ==
  \E j \in 1..Len(s) : j > i /\ s[j].type = "CHAT_DIRECT" /\ r \in Brings(s[j])

(* With what is behind it, rows become what the table will hold.           *)
Settled(rows, i, q, s, table, p) ==
  /\ rows \subseteq Between(p)
  /\ \A r \in Between(p) : r \in table \/ Going(q, r) <=> r \in rows \/ Coming(s, i, r)

(* The last request for a list is the selected friend's, and all that the  *)
(* user has written is before it.                                          *)
LastAsked(q, p) ==
  \E i \in 1..Len(q) :
    /\ q[i].type = "PRIVATE_CHAT_HISTORY_REQUEST" /\ q[i].peer = p
    /\ \A j \in 1..Len(q) : j > i => q[j].type \notin {"PRIVATE_CHAT_HISTORY_REQUEST", "CHAT_DIRECT"}

LastSettles(q, s, table, p) ==
  \E i \in 1..Len(s) :
    /\ s[i].type = "PRIVATE_CHAT_HISTORY_RESPONSE"
    /\ \A j \in 1..Len(s) : j > i => s[j].type # "PRIVATE_CHAT_HISTORY_RESPONSE"
    /\ Settled(DOMAIN s[i].rows, i, q, s, table, p)

(* What the window shows of p becomes what the table will hold.            *)
Converges(q, s, bubbles, table, p) ==
  \/ LastAsked(q, p)
  \/ /\ ~Has(q, "PRIVATE_CHAT_HISTORY_REQUEST")
     /\ \/ LastSettles(q, s, table, p)
        \/ /\ ~Has(s, "PRIVATE_CHAT_HISTORY_RESPONSE")
           /\ Settled(bubbles, 0, q, s, table, p)

Shown == screen = "Chat" /\ selectedFriendId # NoPeer /\ ~blot

Follows ==
  /\ Numbered
  /\ Shown => Converges(toServer, Stream, DOMAIN chatBubbles, DOMAIN privateChats, selectedFriendId)

WindowOK ==
  /\ connected => receiver # "returns"
  /\ screen = "Chat" => callbacks = "set"
  /\ Alive => Follows

IInv == TypeOK /\ OneAnswer /\ OwnTimers /\ WindowOK


----------------------------------------------------------------------------
(* Queues.                                                                 *)

(* What is left of a queue when its head is taken.                         *)
LEMMA TailOfQueue ==
  ASSUME NEW S, NEW q \in Seq(S), q # <<>>
  PROVE  /\ Head(q) \in S /\ Tail(q) \in Seq(S)
         /\ Len(q) \in Nat \ {0} /\ Len(Tail(q)) = Len(q) - 1
         /\ Head(q) = q[1] /\ 1 \in 1..Len(q)
         /\ \A i \in 1..Len(Tail(q)) : i + 1 \in 1..Len(q) /\ Tail(q)[i] = q[i + 1]
         /\ \A i \in 1..Len(q) : i = 1 \/ (i - 1 \in 1..Len(Tail(q)) /\ Tail(q)[i - 1] = q[i])
  <1>1. /\ Len(q) \in Nat \ {0} /\ Head(q) = q[1] /\ Len(Tail(q)) = Len(q) - 1
        /\ \A i \in 1..Len(Tail(q)) : Tail(q)[i] = q[i + 1]
        /\ Head(q) \in S /\ Tail(q) \in Seq(S)
    BY EmptySeq, HeadTailProperties
  <1>2. ASSUME NEW i \in 1..Len(q), i # 1
        PROVE  i - 1 \in 1..Len(Tail(q)) /\ Tail(q)[i - 1] = q[i]
    <2>1. i - 1 \in 1..Len(Tail(q)) /\ (i - 1) + 1 = i
      BY <1>1, <1>2
    <2>2. QED
      BY <1>1, <2>1
  <1>3. QED
    BY <1>1, <1>2

(* A queue and what is put behind it.                                      *)
LEMMA MoreOfQueue ==
  ASSUME NEW S, NEW q \in Seq(S), NEW m \in S
  PROVE  /\ Append(q, m) \in Seq(S)
         /\ Len(q) \in Nat /\ Len(Append(q, m)) = Len(q) + 1
         /\ Append(q, m)[Len(q) + 1] = m /\ Len(q) + 1 \in 1..Len(Append(q, m))
         /\ \A i \in 1..Len(q) : i \in 1..Len(Append(q, m)) /\ Append(q, m)[i] = q[i]
         /\ \A i \in 1..Len(Append(q, m)) :
              (i \in 1..Len(q) /\ Append(q, m)[i] = q[i]) \/ (i = Len(q) + 1 /\ Append(q, m)[i] = m)
  BY AppendProperties, LenProperties

(* The number of messages of a type, as a queue moves.                     *)
LEMMA TailHas ==
  ASSUME NEW S, NEW q \in Seq(S), q # <<>>, NEW t
  PROVE  /\ Has(q, t) <=> Head(q).type = t \/ Has(Tail(q), t)
         /\ \A n : Sole(q, t, n) =>
              /\ Sole(Tail(q), t, n)
              /\ Head(q).type = t => Head(q).n = n /\ ~Has(Tail(q), t)
  <1>1. Has(q, t) <=> Head(q).type = t \/ Has(Tail(q), t)
    <2>1. ASSUME NEW i \in 1..Len(q), q[i].type = t PROVE Head(q).type = t \/ Has(Tail(q), t)
      BY TailOfQueue, <2>1 DEF Has
    <2>2. Head(q).type = t => Has(q, t)
      BY TailOfQueue DEF Has
    <2>3. Has(Tail(q), t) => Has(q, t)
      BY TailOfQueue DEF Has
    <2>4. QED
      BY <2>1, <2>2, <2>3 DEF Has
  <1>2. ASSUME NEW n, Sole(q, t, n)
        PROVE  /\ Sole(Tail(q), t, n)
               /\ Head(q).type = t => Head(q).n = n /\ ~Has(Tail(q), t)
    <2>1. ASSUME NEW i \in 1..Len(Tail(q)), NEW j \in 1..Len(Tail(q)), Tail(q)[i].type = t
          PROVE  Tail(q)[i].n = n /\ (Tail(q)[j].type = t => i = j)
      <3>1. i + 1 \in 1..Len(q) /\ j + 1 \in 1..Len(q) /\ Tail(q)[i] = q[i + 1] /\ Tail(q)[j] = q[j + 1]
        BY TailOfQueue
      <3>2. q[i + 1].n = n /\ (q[j + 1].type = t => i + 1 = j + 1)
        BY <1>2, <2>1, <3>1 DEF Sole
      <3>3. QED
        BY <3>1, <3>2
    <2>2. ASSUME Head(q).type = t, NEW i \in 1..Len(Tail(q)), Tail(q)[i].type = t PROVE FALSE
      <3>1. i + 1 \in 1..Len(q) /\ q[i + 1].type = t /\ 1 \in 1..Len(q) /\ q[1].type = t
        BY TailOfQueue, <2>2
      <3>2. 1 = i + 1
        BY <1>2, <3>1 DEF Sole
      <3>3. QED
        BY <2>2, <3>2
    <2>3. Head(q).type = t => Head(q).n = n
      BY <1>2, TailOfQueue DEF Sole
    <2>4. QED
      BY <2>1, <2>2, <2>3 DEF Sole, Has
  <1>3. QED
    BY <1>1, <1>2

(* A queue with one more message.                                          *)
LEMMA MoreHas ==
  ASSUME NEW S, NEW q \in Seq(S), NEW m \in S, NEW t
  PROVE  /\ Has(Append(q, m), t) <=> m.type = t \/ Has(q, t)
         /\ \A n : Sole(q, t, n) /\ m.type # t => Sole(Append(q, m), t, n)
         /\ \A n : ~Has(q, t) /\ (m.type = t => m.n = n) => Sole(Append(q, m), t, n)
  <1> DEFINE r == Append(q, m)
  <1>1. /\ Len(q) + 1 \in 1..Len(r) /\ r[Len(q) + 1] = m
        /\ \A i \in 1..Len(q) : i \in 1..Len(r) /\ r[i] = q[i]
        /\ \A i \in 1..Len(r) : (i \in 1..Len(q) /\ r[i] = q[i]) \/ (i = Len(q) + 1 /\ r[i] = m)
    BY MoreOfQueue
  <1> HIDE DEF r
  <1>2. Has(r, t) <=> m.type = t \/ Has(q, t)
    BY <1>1 DEF Has
  <1>3. \A n : Sole(q, t, n) /\ m.type # t => Sole(r, t, n)
    BY <1>1 DEF Sole
  <1>4. \A n : ~Has(q, t) /\ (m.type = t => m.n = n) => Sole(r, t, n)
    BY <1>1 DEF Sole, Has
  <1>5. QED
    BY <1>2, <1>3, <1>4 DEF r

(* An empty queue has no message of any type.                              *)
LEMMA EmptyHas == \A t : ~Has(<<>>, t) /\ \A n : Sole(<<>>, t, n)
  BY DEF Has, Sole

(* No message of a type is at most one.                                    *)
LEMMA AbsentIsSole == \A q, t, n : ~Has(q, t) => Sole(q, t, n)
  BY DEF Has, Sole

----------------------------------------------------------------------------
(* Bags of rows.                                                           *)

(* A bag of rows as a function.                                            *)
LEMMA BagsOfRows ==
  \A b : b \in RowBag <=> DOMAIN b \subseteq RowType /\ b \in [DOMAIN b -> Nat \ {0}]
  <1>1. ASSUME NEW b \in RowBag PROVE DOMAIN b \subseteq RowType /\ b \in [DOMAIN b -> Nat \ {0}]
    <2>1. PICK D \in SUBSET RowType : b \in [D -> Nat \ {0}]
      BY DEF RowBag
    <2>2. QED
      BY <2>1
  <1>2. ASSUME NEW b, DOMAIN b \subseteq RowType, b \in [DOMAIN b -> Nat \ {0}] PROVE b \in RowBag
    BY <1>2 DEF RowBag
  <1>3. QED
    BY <1>1, <1>2

(* A bag with one more row.                                                *)
LEMMA BagOperators ==
  /\ EmptyBag \in RowBag /\ DOMAIN EmptyBag = {}
  /\ \A b \in RowBag, r \in RowType : BagAdd(b, r) \in RowBag /\ DOMAIN BagAdd(b, r) = DOMAIN b \cup {r}
  <1>1. EmptyBag \in RowBag /\ DOMAIN EmptyBag = {}
    BY BagsOfRows DEF EmptyBag, SetToBag
  <1>2. ASSUME NEW b \in RowBag, NEW r \in RowType
        PROVE  BagAdd(b, r) \in RowBag /\ DOMAIN BagAdd(b, r) = DOMAIN b \cup {r}
    <2>1. DOMAIN b \subseteq RowType /\ b \in [DOMAIN b -> Nat \ {0}]
      BY BagsOfRows
    <2>2. DOMAIN BagAdd(b, r) = DOMAIN b \cup {r} /\ BagAdd(b, r) \in [DOMAIN b \cup {r} -> Nat \ {0}]
      BY <2>1 DEF BagAdd
    <2>3. DOMAIN b \cup {r} \subseteq RowType
      BY <2>1
    <2>4. QED
      BY <2>2, <2>3, BagsOfRows
  <1>3. QED
    BY <1>1, <1>2

(* The history of a conversation is a bag of rows.                         *)
LEMMA HistoryIsRows ==
  ASSUME privateChats \in RowBag, NEW p \in Peer, NEW found \in SUBSET Saved
  PROVE  LET h == getPrivateChatHistory(p, found)
         IN  /\ h \in RowBag /\ DOMAIN h = found \cap Between(p)
             /\ \A r \in DOMAIN h : r \in DOMAIN privateChats /\ h[r] = privateChats[r]
  <1>1. DOMAIN privateChats \subseteq RowType /\ privateChats \in [DOMAIN privateChats -> Nat \ {0}]
    BY BagsOfRows
  <1> DEFINE h == getPrivateChatHistory(p, found)
  <1>a. found \subseteq DOMAIN privateChats
    BY DEF Saved, BagToSet
  <1>2. h = [r \in found \cap Between(p) |-> privateChats[r]]
    BY <1>1, <1>a DEF getPrivateChatHistory, Between
  <1>3. DOMAIN h = found \cap Between(p) /\ h \in [DOMAIN h -> Nat \ {0}]
        /\ \A r \in DOMAIN h : r \in DOMAIN privateChats /\ h[r] = privateChats[r]
    BY <1>1, <1>2, <1>a
  <1>4. DOMAIN h \subseteq RowType
    BY <1>1, <1>3
  <1>5. QED
    BY <1>3, <1>4, BagsOfRows

(* The rows of the two sides.                                              *)
LEMMA RowTypes ==
  /\ \A p \in Peer, n \in Nat : Row(Me, p, n) \in RowType /\ Row(p, Me, n) \in RowType
  /\ \A x, y, n : Row(x, y, n).from = x /\ Row(x, y, n).to = y /\ Row(x, y, n).n = n
  BY DEF Row, RowType, Person


----------------------------------------------------------------------------
(* The first state.                                                        *)

(* Nothing is under way and nothing shown at the start.                    *)
LEMMA Start == Init => IInv
  <1> SUFFICES ASSUME Init PROVE IInv
    OBVIOUS
  <1> USE DEF Init, NetworkInit, ServiceInit
  <1>1. TypeOK
    <2>1. <<>> \in Seq(Request) /\ <<>> \in Seq(Event)
      OBVIOUS
    <2>2. timers \in [Mine -> Nat]
      BY DEF NoTimers, Off
    <2>3. chatBubbles \in RowBag /\ privateChats \in RowBag
      BY BagOperators
    <2>4. QED
      BY <2>1, <2>2, <2>3 DEF TypeOK
  <1>2. OneAnswer
    BY EmptyHas DEF OneAnswer, Unanswered, Arrives, Waits
  <1>3. OwnTimers
    BY DEF OwnTimers, NoTimers, Off
  <1>4. WindowOK
    <2>1. Stream = <<>> /\ Len(<<>>) = 0
      BY DEF Stream
    <2>2. Numbers(privateChats, typed, theirs) /\ Numbers(chatBubbles, typed, theirs)
      BY BagOperators DEF Numbers, EmptyBag, SetToBag
    <2>3. StreamOrder(Stream) /\ RequestOrder(toServer)
      BY <2>1 DEF StreamOrder, RequestOrder
    <2>4. QED
      BY <2>2, <2>3 DEF WindowOK, Follows, Numbered, Shown
  <1>5. QED
    BY <1>1, <1>2, <1>3, <1>4 DEF IInv

----------------------------------------------------------------------------
(* Types.                                                                  *)

(* A program that ends keeps nothing of the chat.                          *)
LEMMA ForgetsKeepsTypes ==
  ASSUME TypeOK, Forgets, toServer' \in Seq(Request), toMe' \in Seq(Event), events' \in Seq(Event)
  PROVE  TypeOK'
  <1>1. chatBubbles' \in RowBag /\ privateChats' \in RowBag
    BY BagOperators DEF Forgets
  <1>2. timers' \in [Mine -> Nat]
    BY DEF Forgets, NoTimers, Off
  <1>3. QED
    BY <1>1, <1>2 DEF TypeOK, Forgets

(* What the client sends has the type of a request.                        *)
LEMMA RequestsKeepTypes ==
  ASSUME TypeOK, NEW m \in Request, Sends(m) \/ SendFails
  PROVE  toServer' \in Seq(Request)
  <1>1. toServer \in Seq(Request)
    BY DEF TypeOK
  <1>2. Append(toServer, m) \in Seq(Request)
    BY <1>1, MoreOfQueue
  <1>3. QED
    BY <1>1, <1>2 DEF Sends, SendFails

(* The requests of the client.                                             *)
LEMMA RequestTypes ==
  /\ [type |-> "FRIEND_LIST_REQUEST"] \in Request
  /\ \A p \in Peer : [type |-> "PRIVATE_CHAT_HISTORY_REQUEST", peer |-> p] \in Request
  /\ \A p \in Peer, n \in Nat : [type |-> "CHAT_DIRECT", peer |-> p, n |-> n] \in Request
  BY DEF Request, ListRequest

(* The events that come to the client.                                     *)
LEMMA EventTypes ==
  /\ [type |-> "FRIEND_LIST_RESPONSE"] \in Event /\ DisconnectEvent \in Event
  /\ \A n \in Nat : [type |-> "CHAT_DIRECT_ACK", n |-> n] \in Event
  /\ \A p \in Peer, n \in Nat : [type |-> "CHAT_DIRECT", from |-> p, n |-> n] \in Event
  /\ \A b \in RowBag : [type |-> "PRIVATE_CHAT_HISTORY_RESPONSE", rows |-> b] \in Event
  BY DEF Event, DisconnectEvent

(* What a message of each type carries.                                    *)
LEMMA Fields ==
  /\ \A m \in Request : /\ m.type \in {"FRIEND_LIST_REQUEST", "PRIVATE_CHAT_HISTORY_REQUEST", "CHAT_DIRECT"}
                        /\ m.type # "FRIEND_LIST_REQUEST" => m.peer \in Peer
                        /\ m.type = "CHAT_DIRECT" => m.n \in Nat
  /\ \A m \in Event : /\ m.type \in {"FRIEND_LIST_RESPONSE", "DISCONNECT", "CHAT_DIRECT_ACK", "CHAT_DIRECT",
                                     "PRIVATE_CHAT_HISTORY_RESPONSE"}
                      /\ m.type = "CHAT_DIRECT_ACK" => m.n \in Nat
                      /\ m.type = "CHAT_DIRECT" => m.from \in Peer /\ m.n \in Nat
                      /\ m.type = "PRIVATE_CHAT_HISTORY_RESPONSE" => m.rows \in RowBag
  BY DEF Request, ListRequest, Event

(* What the client does with an event depends on its type.                 *)
LEMMA HandleCases ==
  ASSUME TypeOK, Handle
  PROVE  /\ serverOpen /\ toServer # <<>> /\ toServer' = Tail(toServer)
         /\ Head(toServer) \in Request /\ Tail(toServer) \in Seq(Request)
         /\ UNCHANGED <<serverOpen, connected, receiver, events, program, theirs>>
         /\ \/ /\ Head(toServer).type = "CHAT_DIRECT"
               /\ save(Row(Me, Head(toServer).peer, Head(toServer).n))
               /\ toMe' = Append(toMe, [type |-> "CHAT_DIRECT_ACK", n |-> Head(toServer).n])
            \/ /\ Head(toServer).type = "PRIVATE_CHAT_HISTORY_REQUEST"
               /\ \E found \in SUBSET Saved :
                    toMe' = Append(toMe, [type |-> "PRIVATE_CHAT_HISTORY_RESPONSE",
                                          rows |-> getPrivateChatHistory(Head(toServer).peer, found)])
               /\ UNCHANGED privateChats
            \/ /\ Head(toServer).type = "FRIEND_LIST_REQUEST"
               /\ toMe' = Append(toMe, [type |-> "FRIEND_LIST_RESPONSE"])
               /\ UNCHANGED privateChats
  <1>1. serverOpen /\ toServer # <<>> /\ toServer' = Tail(toServer)
        /\ UNCHANGED <<serverOpen, connected, receiver, events, program, theirs>>
    BY DEF Handle, handleChatDirect, handlePrivateChatHistoryRequest, handleFriendListRequest, Handles,
           Answer, service
  <1>2. Head(toServer) \in Request /\ Tail(toServer) \in Seq(Request)
    BY <1>1, TailOfQueue DEF TypeOK
  <1>3. QED
    BY <1>1, <1>2 DEF Handle, handleChatDirect, handlePrivateChatHistoryRequest,
                      handleFriendListRequest, Handles, Answer, service

(* A saved row is one more row in the table.                               *)
LEMMA SaveKeepsTypes ==
  ASSUME privateChats \in RowBag, NEW r \in RowType, save(r)
  PROVE  /\ privateChats' \in RowBag
         /\ DOMAIN privateChats' \subseteq DOMAIN privateChats \cup {r}
  BY BagOperators DEF save

(* A bubble that is shown is one more row in the window.                   *)
LEMMA ShowKeepsTypes ==
  ASSUME TypeOK, NEW rows \in RowBag, ShowBubbles(rows)
  PROVE  chatBubbles' \in RowBag
  BY BagOperators DEF ShowBubbles


(* Types through the user's clicks.                                        *)
LEMMA ClicksKeepTypes ==
  ASSUME TypeOK, Click
  PROVE  TypeOK'
  <1> USE DEF TypeOK
  <1>1. CASE onEnter
    <2>1. toServer' \in Seq(Request)
      BY <1>1, RequestTypes, RequestsKeepTypes DEF onEnter, Requests
    <2>2. QED
      BY <1>1, <2>1, BagOperators DEF onEnter, Requests, service, fsm
  <1>2. CASE onExit
    BY <1>2, BagOperators DEF onExit, network, service, fsm
  <1>3. ASSUME NEW p \in Peer, SelectFriend(p) PROVE TypeOK'
    <2>1. toServer' \in Seq(Request)
      BY <1>3, RequestTypes, RequestsKeepTypes DEF SelectFriend, Requests
    <2>2. QED
      BY <1>3, <2>1 DEF SelectFriend, Requests, service, fsm
  <1>4. CASE DiesOfSend
    BY <1>4, ForgetsKeepsTypes DEF DiesOfSend, SendKills
  <1>5. CASE CloseWindow
    BY <1>5, ForgetsKeepsTypes DEF CloseWindow, stop
  <1>6. CASE TypeMessage
    <2> DEFINE n == typed + 1
               m == [type |-> "CHAT_DIRECT", peer |-> selectedFriendId, n |-> n]
    <2>1. /\ selectedFriendId \in Peer /\ n \in Nat /\ n \in Mine /\ typed' = n
          /\ m \in Request /\ Row(Me, selectedFriendId, typed') \in RowType
      <3>1. selectedFriendId \in Peer /\ n \in Nat /\ typed' = n /\ typed < MaxMine
        BY <1>6 DEF TypeMessage
      <3>2. n \in Mine
        BY <3>1, ChatAssumption DEF Mine
      <3>3. QED
        BY <3>1, <3>2, RequestTypes, RowTypes
    <2>2. chatBubbles' \in RowBag
      BY <1>6, <2>1, BagOperators DEF TypeMessage, ShowBubbles
    <2>3. /\ toServer' \in Seq(Request)
          /\ chatState' \in {"IDLE", "WAIT_ACK", "FAILED"} /\ timers' \in [Mine -> Nat]
      <3>1. CASE onSendPrivateChat
        <4>1. toServer' \in Seq(Request)
          BY <2>1, <3>1, RequestsKeepTypes DEF onSendPrivateChat
        <4>2. timers' \in [Mine -> Nat]
          BY <2>1, <3>1, ChatAssumption DEF onSendPrivateChat, startAckTimer, Fires
        <4>3. QED
          BY <3>1, <4>1, <4>2 DEF onSendPrivateChat
      <3>2. CASE SendPrivateChatFails
        BY <3>2 DEF SendPrivateChatFails, SendFails
      <3>3. CASE ChatIsBusy
        BY <3>3 DEF ChatIsBusy, fsm
      <3>4. QED
        BY <1>6, <3>1, <3>2, <3>3 DEF TypeMessage
    <2>4. UNCHANGED <<toMe, events, screen, callbacks, selectedFriendId, privateChats, theirs>>
      BY <1>6 DEF TypeMessage, ShowBubbles, service
    <2>5. QED
      BY <2>1, <2>2, <2>3, <2>4
  <1>7. QED
    BY <1>1, <1>2, <1>3, <1>4, <1>5, <1>6 DEF Click

(* The head of the queue of events and what it does.                       *)
LEMMA EventTaken ==
  ASSUME TypeOK, NEW e, Pops(e)
  PROVE  /\ program = "runs" /\ events # <<>> /\ e = Head(events) /\ events' = Tail(events)
         /\ e \in Event /\ events' \in Seq(Event)
  BY TailOfQueue DEF TypeOK, Pops

(* An event is taken from the queue before anything else happens with it.  *)
LEMMA HandledEvent ==
  ASSUME TypeOK, NEW e, handleMessage(e)
  PROVE  /\ Pops(e)
         /\ UNCHANGED <<toServer, toMe, serverOpen, connected, receiver, program, service, typed>>
         /\ UNCHANGED <<screen, callbacks, selectedFriendId, awaited, overtaken, blot, timers>>
         /\ \/ e.type = "CHAT_DIRECT_ACK" /\ onServerACK
            \/ e.type = "CHAT_DIRECT" /\ onServerDeliverMessage(e)
            \/ e.type = "PRIVATE_CHAT_HISTORY_RESPONSE" /\ Shows(e.rows)
            \/ e.type \in {"FRIEND_LIST_RESPONSE", "DISCONNECT"} /\ UNCHANGED <<chatBubbles, fsm, history>>
  <1>1. Pops(e) /\ e \in Event
    BY EventTaken DEF handleMessage
  <1>2. e.type \in {"FRIEND_LIST_RESPONSE", "DISCONNECT", "CHAT_DIRECT_ACK", "CHAT_DIRECT",
                    "PRIVATE_CHAT_HISTORY_RESPONSE"}
    BY <1>1, Fields
  <1>3. CASE e.type = "CHAT_DIRECT_ACK"
    BY <1>1, <1>3 DEF handleMessage, onServerACK, window, fsm
  <1>4. CASE e.type = "CHAT_DIRECT"
    BY <1>1, <1>4 DEF handleMessage, onServerDeliverMessage, Shows, ShowBubbles, fsm, history
  <1>5. CASE e.type = "PRIVATE_CHAT_HISTORY_RESPONSE"
    BY <1>1, <1>5 DEF handleMessage, buildChatHistory, Shows, ShowBubbles, fsm, history
  <1>6. CASE e.type = "FRIEND_LIST_RESPONSE"
    BY <1>1, <1>6 DEF handleMessage, onFriendList, fsm, history
  <1>7. CASE e.type = "DISCONNECT"
    BY <1>1, <1>7 DEF handleMessage, window, fsm, history
  <1>8. QED
    BY <1>2, <1>3, <1>4, <1>5, <1>6, <1>7

(* An event keeps every variable in its type.                              *)
LEMMA EventsKeepTypes ==
  ASSUME TypeOK, consumeNetworkEvents
  PROVE  TypeOK'
  <1>1. PICK e \in Range(events) : handleMessage(e) \/ CallsGoneScreen(e)
    BY DEF consumeNetworkEvents
  <1>2. CASE handleMessage(e)
    <2>1. e \in Event /\ events' \in Seq(Event)
      BY <1>2, EventTaken, HandledEvent
    <2>2. chatBubbles' \in RowBag
      <3>1. CASE onServerDeliverMessage(e) /\ e.type = "CHAT_DIRECT"
        <4>1. Row(e.from, Me, e.n) \in RowType
          BY <2>1, <3>1, Fields, RowTypes
        <4>2. QED
          BY <3>1, <4>1, BagOperators DEF TypeOK, onServerDeliverMessage, Shows, ShowBubbles
      <3>2. CASE Shows(e.rows) /\ e.type = "PRIVATE_CHAT_HISTORY_RESPONSE"
        BY <2>1, <3>2, Fields, BagOperators DEF TypeOK, Shows, ShowBubbles
      <3>3. QED
        BY <1>2, <3>1, <3>2, HandledEvent DEF TypeOK, onServerACK, window
    <2>3. chatState' \in {"IDLE", "WAIT_ACK", "FAILED"}
      BY <1>2, HandledEvent DEF TypeOK, onServerACK, onServerDeliverMessage, Shows, fsm
    <2>4. QED
      BY <1>2, <2>1, <2>2, <2>3, HandledEvent DEF TypeOK, service
  <1>3. CASE CallsGoneScreen(e)
    <2>1. Pops(e)
      BY <1>3 DEF CallsGoneScreen
    <2>2. events' \in Seq(Event)
      BY <2>1, EventTaken
    <2>3. toServer' \in Seq(Request) /\ toMe' \in Seq(Event) /\ Forgets
      BY <1>3 DEF TypeOK, CallsGoneScreen
    <2>4. QED
      BY <2>2, <2>3, ForgetsKeepsTypes
  <1>4. QED
    BY <1>1, <1>2, <1>3

(* A request keeps every variable in its type.                             *)
LEMMA ServiceKeepsTypes ==
  ASSUME TypeOK, Server \/ Peers \/ Network
  PROVE  TypeOK'
  <1>1. CASE Server
    <2> DEFINE h == Head(toServer)
    <2>1. Handle /\ Blots(Loses(h)) /\ h \in Request
      BY <1>1, HandleCases DEF Server
    <2>2. privateChats' \in RowBag /\ toMe' \in Seq(Event)
      <3>1. CASE /\ h.type = "CHAT_DIRECT"
                 /\ save(Row(Me, h.peer, h.n))
                 /\ toMe' = Append(toMe, [type |-> "CHAT_DIRECT_ACK", n |-> h.n])
        <4>1. Row(Me, h.peer, h.n) \in RowType /\ [type |-> "CHAT_DIRECT_ACK", n |-> h.n] \in Event
          BY <2>1, <3>1, Fields, RowTypes, EventTypes
        <4>2. QED
          BY <3>1, <4>1, SaveKeepsTypes, MoreOfQueue DEF TypeOK
      <3>2. ASSUME h.type = "PRIVATE_CHAT_HISTORY_REQUEST", NEW found \in SUBSET Saved,
                   toMe' = Append(toMe, [type |-> "PRIVATE_CHAT_HISTORY_RESPONSE",
                                         rows |-> getPrivateChatHistory(h.peer, found)]),
                   UNCHANGED privateChats
            PROVE  privateChats' \in RowBag /\ toMe' \in Seq(Event)
        <4>1. getPrivateChatHistory(h.peer, found) \in RowBag
          BY <2>1, <3>2, Fields, HistoryIsRows DEF TypeOK
        <4>2. [type |-> "PRIVATE_CHAT_HISTORY_RESPONSE",
               rows |-> getPrivateChatHistory(h.peer, found)] \in Event
          BY <4>1, EventTypes
        <4>3. QED
          BY <3>2, <4>2, MoreOfQueue DEF TypeOK
      <3>3. CASE /\ h.type = "FRIEND_LIST_REQUEST"
                 /\ toMe' = Append(toMe, [type |-> "FRIEND_LIST_RESPONSE"])
                 /\ UNCHANGED privateChats
        BY <3>3, EventTypes, MoreOfQueue DEF TypeOK
      <3>4. QED
        BY <2>1, <3>1, <3>2, <3>3, HandleCases
    <2>3. chatBubbles' \in RowBag
      BY <2>1, ShowKeepsTypes DEF Blots, TypeOK
    <2>4. QED
      BY <2>1, <2>2, <2>3, HandleCases DEF TypeOK, Blots, ShowBubbles, fsm
  <1>2. CASE Peers
    <2>1. PICK p \in Writer : PeerWrites(p)
      BY <1>2 DEF Peers
    <2>2. p \in Peer /\ theirs' = theirs + 1 /\ theirs' \in Nat
      BY <2>1, PeerAssumption DEF PeerWrites, TypeOK
    <2>3. Row(p, Me, theirs') \in RowType /\ [type |-> "CHAT_DIRECT", from |-> p, n |-> theirs'] \in Event
      BY <2>2, RowTypes, EventTypes
    <2>4. privateChats' \in RowBag /\ toMe' \in Seq(Event)
      BY <2>1, <2>3, SaveKeepsTypes, MoreOfQueue DEF TypeOK, PeerWrites
    <2>5. chatBubbles' \in RowBag
      BY <1>2, ShowKeepsTypes DEF Peers, Blots, TypeOK
    <2>6. QED
      BY <1>2, <2>1, <2>2, <2>4, <2>5 DEF TypeOK, PeerWrites, Peers, Blots, ShowBubbles, fsm
  <1>3. CASE Network
    <2>1. chatBubbles' \in RowBag /\ privateChats' \in RowBag
      BY <1>3, BagOperators DEF Network, ShowBubbles
    <2>2. toServer' \in Seq(Request) /\ UNCHANGED <<toMe, events>>
      <3>1. <<>> \in Seq(Request)
        OBVIOUS
      <3>2. QED
        BY <1>3, <3>1 DEF TypeOK, Network, closeConnection, ServerCrash
    <2>3. QED
      BY <1>3, <2>1, <2>2 DEF TypeOK, Network, ShowBubbles, fsm
  <1>4. QED
    BY <1>1, <1>2, <1>3

(* The receiver moves events, and puts its own behind them at the end.     *)
LEMMA ReceiverKeepsTypes ==
  ASSUME TypeOK, Receiver \/ Joins
  PROVE  TypeOK'
  <1>1. CASE Receiver
    <2>1. toServer' = toServer /\ toMe' \in Seq(Event) /\ events' \in Seq(Event)
      <3>1. Append(events, DisconnectEvent) \in Seq(Event)
        BY EventTypes, MoreOfQueue DEF TypeOK
      <3>2. CASE receiveMessage
        <4>1. Head(toMe) \in Event /\ Tail(toMe) \in Seq(Event)
          BY <3>2, TailOfQueue DEF receiveMessage, TypeOK
        <4>2. Append(events, Head(toMe)) \in Seq(Event)
          BY <4>1, MoreOfQueue DEF TypeOK
        <4>3. QED
          BY <3>1, <3>2, <4>1, <4>2 DEF receiveMessage, push, pushDisconnect, TypeOK
      <3>3. CASE isConnected \/ receiveEOF
        BY <3>1, <3>3 DEF isConnected, receiveEOF, push, pushDisconnect, TypeOK
      <3>4. QED
        BY <1>1, <3>2, <3>3 DEF Receiver, Receive
    <2>2. QED
      BY <1>1, <2>1 DEF TypeOK, Receiver, service, Stays, window, fsm
  <1>2. CASE Joins
    BY <1>2 DEF TypeOK, Joins, Joined, service, Stays, window, fsm
  <1>3. QED
    BY <1>1, <1>2

(* Every step keeps every variable in its type.                            *)
LEMMA TypeStep == TypeOK /\ [Next]_vars => TypeOK'
  <1> SUFFICES ASSUME TypeOK, [Next]_vars PROVE TypeOK'
    OBVIOUS
  <1>1. ASSUME NEW n \in Mine, Timer(n) PROVE TypeOK'
    <2>1. timers' \in [Mine -> Nat] /\ chatState' \in {"IDLE", "WAIT_ACK", "FAILED"}
      BY <1>1 DEF Timer, Poll, onAckTimeout, setChatFailed, Goes, TypeOK, Fires, Writes, Off
    <2>2. QED
      BY <1>1, <2>1 DEF Timer, TypeOK, network, service, window
  <1>2. CASE UNCHANGED vars
    BY <1>2 DEF vars, TypeOK, network, service, window, fsm, history
  <1>3. QED
    BY <1>1, <1>2, ClicksKeepTypes, EventsKeepTypes, ServiceKeepsTypes, ReceiverKeepsTypes DEF Next


----------------------------------------------------------------------------
(* Acknowledgements.                                                       *)

(* A program that has ended awaits no acknowledgement.                     *)
LEMMA ForgetsHasNoAnswer ==
  ASSUME Forgets, program' # "runs"
  PROVE  OneAnswer'
  BY DEF Forgets, OneAnswer

(* A step that leaves the state of the chat alone, and either moves the    *)
(* one message on or leaves the queues as they are.                        *)
LEMMA AnswerMoves ==
  ASSUME OneAnswer, UNCHANGED <<chatState, awaited>>, program' = "runs", program = "runs",
         Unanswered' \/ Arrives' \/ Waits' => Unanswered \/ Arrives \/ Waits,
         chatState = "WAIT_ACK" =>
           /\ Unanswered' => Unanswered
           /\ Arrives' => Arrives \/ (Unanswered /\ ~Unanswered')
           /\ Waits' => Waits \/ (Arrives /\ ~Arrives')
           /\ Sole(toServer, "CHAT_DIRECT", awaited)'
           /\ Sole(toMe, "CHAT_DIRECT_ACK", awaited)'
           /\ Sole(events, "CHAT_DIRECT_ACK", awaited)'
  PROVE  OneAnswer'
  <1>1. CASE chatState = "WAIT_ACK"
    <2>1. /\ Unanswered => ~Arrives /\ ~Waits
          /\ Arrives => ~Waits
      BY <1>1 DEF OneAnswer
    <2>2. Unanswered' => ~Arrives' /\ ~Waits'
      BY <1>1, <2>1
    <2>3. Arrives' => ~Waits'
      BY <1>1, <2>1
    <2>4. QED
      BY <1>1, <2>2, <2>3 DEF OneAnswer
  <1>2. CASE chatState # "WAIT_ACK"
    BY <1>2 DEF OneAnswer
  <1>3. QED
    BY <1>1, <1>2

(* A step that leaves queues and chat alone keeps what is awaited.         *)
LEMMA AnswerStays ==
  ASSUME OneAnswer, UNCHANGED <<toServer, toMe, events, awaited>>, program' = "runs", program = "runs",
         chatState' \in {chatState, "FAILED"}
  PROVE  OneAnswer'
  BY DEF OneAnswer, Unanswered, Arrives, Waits

(* A program that has ended awaits nothing.                                *)
LEMMA NotRunning ==
  ASSUME OneAnswer, program # "runs", [Next]_vars
  PROVE  OneAnswer'
  <1>1. chatState = "IDLE"
    BY DEF OneAnswer
  <1>2. program' # "runs" /\ chatState' = "IDLE"
    <2>1. CASE Click
      BY <2>1 DEF Click, onEnter, onExit, TypeMessage, DiesOfSend, CloseWindow, SelectFriend, MayClick, stop
    <2>2. CASE consumeNetworkEvents
      BY <2>2 DEF consumeNetworkEvents, handleMessage, CallsGoneScreen, Pops
    <2>3. CASE Server
      BY <1>1, <2>3 DEF Server, Handle, handleChatDirect, handlePrivateChatHistoryRequest,
                        handleFriendListRequest, Answer, Blots, fsm
    <2>4. CASE Peers \/ Network
      BY <1>1, <2>4 DEF Peers, PeerWrites, Network, closeConnection, ServerCrash, Blots, fsm
    <2>5. CASE Receiver \/ Joins
      BY <1>1, <2>5 DEF Receiver, Receive, receiveMessage, isConnected, receiveEOF, Joins, Joined, Stays, fsm
    <2>6. CASE \E n \in Mine : Timer(n)
      BY <2>6 DEF Timer
    <2>7. CASE UNCHANGED vars
      BY <1>1, <2>7 DEF vars, network, fsm
    <2>8. QED
      BY <2>1, <2>2, <2>3, <2>4, <2>5, <2>6, <2>7 DEF Next
  <1>3. QED
    BY <1>2 DEF OneAnswer

(* A click sends a message only from an idle chat.                         *)
LEMMA ClicksKeepAnswer ==
  ASSUME TypeOK, OneAnswer, program = "runs", Click
  PROVE  OneAnswer'
  <1>1. ASSUME NEW m \in Request, m.type # "CHAT_DIRECT", Requests(m), UNCHANGED <<fsm, awaited>>
        PROVE  OneAnswer'
    <2>1. UNCHANGED <<toMe, events, chatState, program>> /\ toServer' \in {toServer, Append(toServer, m)}
      BY <1>1 DEF Requests, Sends, SendFails, fsm
    <2>2. toServer \in Seq(Request)
      BY DEF TypeOK
    <2>3. /\ Has(Append(toServer, m), "CHAT_DIRECT") <=> Has(toServer, "CHAT_DIRECT")
          /\ \A n : Sole(toServer, "CHAT_DIRECT", n) => Sole(Append(toServer, m), "CHAT_DIRECT", n)
      BY <1>1, <2>2, MoreHas
    <2>4. /\ Unanswered' => Unanswered
          /\ UNCHANGED <<Arrives, Waits>>
      BY <2>1, <2>3 DEF Unanswered, Arrives, Waits
    <2>5. chatState = "WAIT_ACK" =>
            /\ Sole(toServer, "CHAT_DIRECT", awaited)'
            /\ Sole(toMe, "CHAT_DIRECT_ACK", awaited)'
            /\ Sole(events, "CHAT_DIRECT_ACK", awaited)'
      BY <1>1, <2>1, <2>3 DEF OneAnswer
    <2>6. QED
      BY <1>1, <2>1, <2>4, <2>5, AnswerMoves
  <1>2. CASE onEnter
    BY <1>1, <1>2, RequestTypes DEF onEnter, history
  <1>3. ASSUME NEW p \in Peer, SelectFriend(p) PROVE OneAnswer'
    BY <1>1, <1>3, RequestTypes DEF SelectFriend
  <1>4. CASE onExit
    BY <1>4, AnswerStays DEF onExit, network, fsm
  <1>5. CASE DiesOfSend
    BY <1>5, ForgetsHasNoAnswer DEF DiesOfSend, SendKills
  <1>6. CASE CloseWindow
    BY <1>6, ForgetsHasNoAnswer DEF CloseWindow, stop
  <1>7. CASE TypeMessage /\ onSendPrivateChat
    <2> DEFINE n == typed + 1
               m == [type |-> "CHAT_DIRECT", peer |-> selectedFriendId, n |-> n]
    <2>1. /\ UNCHANGED <<toMe, events, program>> /\ toServer' \in {toServer, Append(toServer, m)}
          /\ chatState = "IDLE" /\ chatState' = "WAIT_ACK" /\ awaited' = n
      BY <1>7 DEF TypeMessage, onSendPrivateChat, Sends
    <2>2. ~Unanswered /\ ~Arrives /\ ~Waits
      BY <2>1 DEF OneAnswer
    <2>3. toServer \in Seq(Request) /\ m \in Request
      BY <1>7, RequestTypes DEF TypeOK, TypeMessage
    <2>4. Sole(Append(toServer, m), "CHAT_DIRECT", n) /\ Sole(toServer, "CHAT_DIRECT", n)
      BY <2>2, <2>3, MoreHas, AbsentIsSole DEF Unanswered
    <2>5. ~Arrives' /\ ~Waits' /\ Sole(toMe', "CHAT_DIRECT_ACK", n) /\ Sole(events', "CHAT_DIRECT_ACK", n)
      BY <2>1, <2>2, AbsentIsSole DEF Arrives, Waits
    <2>6. Sole(toServer, "CHAT_DIRECT", awaited)' /\ Sole(toMe, "CHAT_DIRECT_ACK", awaited)'
          /\ Sole(events, "CHAT_DIRECT_ACK", awaited)'
      BY <2>1, <2>4, <2>5
    <2>7. QED
      BY <2>1, <2>5, <2>6 DEF OneAnswer
  <1>8. CASE TypeMessage /\ (SendPrivateChatFails \/ ChatIsBusy)
    BY <1>8, AnswerStays DEF TypeMessage, SendPrivateChatFails, SendFails, ChatIsBusy, fsm
  <1>9. QED
    BY <1>2, <1>3, <1>4, <1>5, <1>6, <1>7, <1>8 DEF Click, TypeMessage

(* The acknowledgement that is taken is the only one under way.            *)
LEMMA EventsKeepAnswer ==
  ASSUME TypeOK, OneAnswer, consumeNetworkEvents
  PROVE  OneAnswer'
  <1>1. PICK e \in Range(events) : handleMessage(e) \/ CallsGoneScreen(e)
    BY DEF consumeNetworkEvents
  <1>2. CASE handleMessage(e)
    <2>1. /\ program = "runs" /\ UNCHANGED <<toServer, toMe, program, awaited>>
          /\ events # <<>> /\ e = Head(events) /\ events' = Tail(events)
      BY <1>2, HandledEvent, EventTaken
    <2>2. events \in Seq(Event)
      BY DEF TypeOK
    <2>3. /\ Has(events, "CHAT_DIRECT_ACK") <=> e.type = "CHAT_DIRECT_ACK" \/ Has(events', "CHAT_DIRECT_ACK")
          /\ \A n : Sole(events, "CHAT_DIRECT_ACK", n) =>
               /\ Sole(events', "CHAT_DIRECT_ACK", n)
               /\ e.type = "CHAT_DIRECT_ACK" => e.n = n /\ ~Has(events', "CHAT_DIRECT_ACK")
      BY <2>1, <2>2, TailHas
    <2>4. UNCHANGED <<Unanswered, Arrives>> /\ (Waits' => Waits)
      BY <2>1, <2>3 DEF Unanswered, Arrives, Waits
    <2>5. CASE UNCHANGED chatState
      <3>1. chatState = "WAIT_ACK" =>
              /\ Sole(toServer, "CHAT_DIRECT", awaited)'
              /\ Sole(toMe, "CHAT_DIRECT_ACK", awaited)'
              /\ Sole(events, "CHAT_DIRECT_ACK", awaited)'
        BY <2>1, <2>3 DEF OneAnswer
      <3>2. QED
        BY <2>1, <2>4, <2>5, <3>1, AnswerMoves
    <2>6. CASE e.type = "CHAT_DIRECT_ACK" /\ chatState = "WAIT_ACK" /\ chatState' = "IDLE"
      <3>1. Waits /\ ~Waits'
        BY <2>3, <2>6 DEF OneAnswer, Waits
      <3>2. ~Unanswered /\ ~Arrives
        BY <2>6, <3>1 DEF OneAnswer
      <3>3. QED
        BY <2>1, <2>4, <2>6, <3>1, <3>2 DEF OneAnswer
    <2>7. QED
      BY <1>2, <2>5, <2>6, HandledEvent DEF onServerACK, onServerDeliverMessage, Shows, fsm
  <1>3. CASE CallsGoneScreen(e)
    BY <1>3, ForgetsHasNoAnswer DEF CallsGoneScreen
  <1>4. QED
    BY <1>1, <1>2, <1>3

(* The server turns the message into its acknowledgement.                  *)
LEMMA ServerKeepsAnswer ==
  ASSUME TypeOK, OneAnswer, program = "runs", Server
  PROVE  OneAnswer'
  <1> DEFINE h == Head(toServer)
  <1>1. Handle /\ Blots(Loses(h)) /\ toServer \in Seq(Request) /\ toMe \in Seq(Event)
    BY DEF Server, TypeOK
  <1>2. /\ toServer # <<>> /\ toServer' = Tail(toServer)
        /\ UNCHANGED <<events, program, chatState, awaited>>
    BY <1>1, HandleCases DEF Blots, fsm
  <1>3. /\ Has(toServer, "CHAT_DIRECT") <=> h.type = "CHAT_DIRECT" \/ Has(toServer', "CHAT_DIRECT")
        /\ \A n : Sole(toServer, "CHAT_DIRECT", n) =>
             /\ Sole(toServer', "CHAT_DIRECT", n)
             /\ h.type = "CHAT_DIRECT" => h.n = n /\ ~Has(toServer', "CHAT_DIRECT")
    BY <1>1, <1>2, TailHas
  <1>4. (Unanswered' => Unanswered) /\ UNCHANGED Waits
    BY <1>2, <1>3 DEF Unanswered, Waits
  <1>5. CASE h.type = "CHAT_DIRECT" /\ toMe' = Append(toMe, [type |-> "CHAT_DIRECT_ACK", n |-> h.n])
    <2>1. [type |-> "CHAT_DIRECT_ACK", n |-> h.n] \in Event
      BY <1>1, <1>5, HandleCases, Fields, EventTypes
    <2>2. Unanswered
      BY <1>3, <1>5 DEF Unanswered
    <2>3. chatState = "WAIT_ACK" =>
            /\ Sole(toServer, "CHAT_DIRECT", awaited) /\ ~Arrives
            /\ Sole(events, "CHAT_DIRECT_ACK", awaited)
      BY <2>2 DEF OneAnswer
    <2>4. chatState = "WAIT_ACK" => ~Unanswered' /\ h.n = awaited
      BY <1>3, <1>5, <2>3 DEF Unanswered
    <2>5. ~Arrives => Sole(toMe', "CHAT_DIRECT_ACK", h.n)
      BY <1>1, <1>5, <2>1, MoreHas DEF Arrives
    <2>6. chatState = "WAIT_ACK" =>
            /\ Sole(toServer, "CHAT_DIRECT", awaited)'
            /\ Sole(toMe, "CHAT_DIRECT_ACK", awaited)'
            /\ Sole(events, "CHAT_DIRECT_ACK", awaited)'
      BY <1>2, <1>3, <2>3, <2>4, <2>5
    <2>7. QED
      BY <1>2, <1>4, <2>2, <2>4, <2>6, AnswerMoves
  <1>6. ASSUME NEW m \in Event, m.type # "CHAT_DIRECT_ACK", toMe' = Append(toMe, m)
        PROVE  OneAnswer'
    <2>1. /\ Has(toMe', "CHAT_DIRECT_ACK") <=> Has(toMe, "CHAT_DIRECT_ACK")
          /\ \A n : Sole(toMe, "CHAT_DIRECT_ACK", n) => Sole(toMe', "CHAT_DIRECT_ACK", n)
      BY <1>1, <1>6, MoreHas
    <2>2. Arrives' => Arrives
      BY <2>1 DEF Arrives
    <2>3. chatState = "WAIT_ACK" =>
            /\ Sole(toServer, "CHAT_DIRECT", awaited)'
            /\ Sole(toMe, "CHAT_DIRECT_ACK", awaited)'
            /\ Sole(events, "CHAT_DIRECT_ACK", awaited)'
      BY <1>2, <1>3, <2>1 DEF OneAnswer
    <2>4. QED
      BY <1>2, <1>4, <2>2, <2>3, AnswerMoves
  <1>7. CASE h.type = "PRIVATE_CHAT_HISTORY_REQUEST"
    <2>1. PICK found \in SUBSET Saved :
            toMe' = Append(toMe, [type |-> "PRIVATE_CHAT_HISTORY_RESPONSE",
                                  rows |-> getPrivateChatHistory(h.peer, found)])
      BY <1>1, <1>7, HandleCases
    <2>2. getPrivateChatHistory(h.peer, found) \in RowBag
      BY <1>1, <1>7, HandleCases, Fields, HistoryIsRows DEF TypeOK
    <2>3. QED
      BY <1>6, <2>1, <2>2, EventTypes
  <1>8. CASE h.type = "FRIEND_LIST_REQUEST"
    BY <1>1, <1>6, <1>8, HandleCases, EventTypes
  <1>9. QED
    BY <1>1, <1>5, <1>7, <1>8, HandleCases

(* Peers send no acknowledgement, and a connection that breaks brings      *)
(* none.                                                                   *)
LEMMA OthersKeepAnswer ==
  ASSUME TypeOK, OneAnswer, program = "runs", Peers \/ Network
  PROVE  OneAnswer'
  <1>1. CASE Peers
    <2>1. PICK p \in Writer : PeerWrites(p)
      BY <1>1 DEF Peers
    <2> DEFINE m == [type |-> "CHAT_DIRECT", from |-> p, n |-> theirs']
    <2>2. /\ UNCHANGED <<toServer, events, program, chatState, awaited>> /\ toMe' = Append(toMe, m)
          /\ theirs' \in Nat /\ p \in Peer
      BY <1>1, <2>1, PeerAssumption DEF PeerWrites, Peers, Blots, fsm, TypeOK
    <2>3. m \in Event /\ toMe \in Seq(Event) /\ m.type # "CHAT_DIRECT_ACK"
      BY <2>2, EventTypes DEF TypeOK
    <2> HIDE DEF m
    <2>4. /\ Has(toMe', "CHAT_DIRECT_ACK") <=> Has(toMe, "CHAT_DIRECT_ACK")
          /\ \A n : Sole(toMe, "CHAT_DIRECT_ACK", n) => Sole(toMe', "CHAT_DIRECT_ACK", n)
      BY <2>2, <2>3, MoreHas
    <2>5. UNCHANGED <<Unanswered, Waits>> /\ (Arrives' => Arrives)
      BY <2>2, <2>4 DEF Unanswered, Arrives, Waits
    <2>6. chatState = "WAIT_ACK" =>
            /\ Sole(toServer, "CHAT_DIRECT", awaited)'
            /\ Sole(toMe, "CHAT_DIRECT_ACK", awaited)'
            /\ Sole(events, "CHAT_DIRECT_ACK", awaited)'
      BY <2>2, <2>4 DEF OneAnswer
    <2>7. QED
      BY <2>2, <2>5, <2>6, AnswerMoves
  <1>2. CASE Network
    <2>1. UNCHANGED <<toMe, events, program, chatState, awaited>> /\ toServer' \in {toServer, <<>>}
      BY <1>2 DEF Network, closeConnection, ServerCrash, fsm
    <2>2. (Unanswered' => Unanswered) /\ UNCHANGED <<Arrives, Waits>>
      BY <2>1, EmptyHas DEF Unanswered, Arrives, Waits
    <2>3. chatState = "WAIT_ACK" =>
            /\ Sole(toServer, "CHAT_DIRECT", awaited)'
            /\ Sole(toMe, "CHAT_DIRECT_ACK", awaited)'
            /\ Sole(events, "CHAT_DIRECT_ACK", awaited)'
      BY <2>1, EmptyHas DEF OneAnswer
    <2>4. QED
      BY <2>1, <2>2, <2>3, AnswerMoves
  <1>3. QED
    BY <1>1, <1>2

(* The receiver moves an acknowledgement and makes none.                   *)
LEMMA ReceiverKeepsAnswer ==
  ASSUME TypeOK, OneAnswer, program = "runs", Receiver \/ Joins
  PROVE  OneAnswer'
  <1>1. /\ Receive /\ UNCHANGED <<toServer, program, chatState, awaited>>
        /\ toMe \in Seq(Event) /\ events \in Seq(Event)
    BY DEF Receiver, Joins, Joined, Receive, isConnected, receiveMessage, receiveEOF, Stays, fsm, history, TypeOK
  <1>2. /\ Has(Append(events, DisconnectEvent), "CHAT_DIRECT_ACK") <=> Has(events, "CHAT_DIRECT_ACK")
        /\ \A n : Sole(events, "CHAT_DIRECT_ACK", n)
             => Sole(Append(events, DisconnectEvent), "CHAT_DIRECT_ACK", n)
    <2>1. DisconnectEvent \in Event /\ DisconnectEvent.type # "CHAT_DIRECT_ACK"
      BY EventTypes DEF DisconnectEvent
    <2>2. QED
      BY <1>1, <2>1, MoreHas
  <1>3. toMe # <<>> =>
          /\ Has(toMe, "CHAT_DIRECT_ACK") <=>
               Head(toMe).type = "CHAT_DIRECT_ACK" \/ Has(Tail(toMe), "CHAT_DIRECT_ACK")
          /\ \A n : Sole(toMe, "CHAT_DIRECT_ACK", n) =>
               /\ Sole(Tail(toMe), "CHAT_DIRECT_ACK", n)
               /\ Head(toMe).type = "CHAT_DIRECT_ACK" =>
                    Head(toMe).n = n /\ ~Has(Tail(toMe), "CHAT_DIRECT_ACK")
    BY <1>1, TailHas
  <1>4. UNCHANGED Unanswered
    BY <1>1 DEF Unanswered
  <1>5. CASE /\ events' = Append(events, DisconnectEvent)
             /\ toMe' = toMe \/ (toMe # <<>> /\ toMe' = Tail(toMe))
    <2>1. (Arrives' => Arrives) /\ (Waits' => Waits)
      BY <1>2, <1>3, <1>5 DEF Arrives, Waits
    <2>2. chatState = "WAIT_ACK" =>
            /\ Sole(toServer, "CHAT_DIRECT", awaited)'
            /\ Sole(toMe, "CHAT_DIRECT_ACK", awaited)'
            /\ Sole(events, "CHAT_DIRECT_ACK", awaited)'
      BY <1>1, <1>2, <1>3, <1>5 DEF OneAnswer
    <2>3. QED
      BY <1>1, <1>4, <2>1, <2>2, AnswerMoves
  <1>6. CASE toMe # <<>> /\ toMe' = Tail(toMe) /\ events' = Append(events, Head(toMe))
    <2> DEFINE h == Head(toMe)
    <2>1. h \in Event
      BY <1>1, <1>6, TailOfQueue
    <2>2. /\ Has(events', "CHAT_DIRECT_ACK") <=> h.type = "CHAT_DIRECT_ACK" \/ Has(events, "CHAT_DIRECT_ACK")
          /\ \A n : Sole(events, "CHAT_DIRECT_ACK", n) /\ h.type # "CHAT_DIRECT_ACK"
                      => Sole(events', "CHAT_DIRECT_ACK", n)
          /\ \A n : ~Has(events, "CHAT_DIRECT_ACK") /\ (h.type = "CHAT_DIRECT_ACK" => h.n = n)
                      => Sole(events', "CHAT_DIRECT_ACK", n)
      BY <1>1, <1>6, <2>1, MoreHas
    <2>3. (Arrives' => Arrives) /\ (Waits' => Waits \/ Arrives)
      BY <1>3, <1>6, <2>2 DEF Arrives, Waits
    <2>4. ASSUME chatState = "WAIT_ACK"
          PROVE  /\ Sole(toServer, "CHAT_DIRECT", awaited)'
                 /\ Sole(toMe, "CHAT_DIRECT_ACK", awaited)'
                 /\ Sole(events, "CHAT_DIRECT_ACK", awaited)'
                 /\ Waits' => Waits \/ (Arrives /\ ~Arrives')
      <3>1. /\ Sole(toServer, "CHAT_DIRECT", awaited)
            /\ Sole(toMe, "CHAT_DIRECT_ACK", awaited)
            /\ Sole(events, "CHAT_DIRECT_ACK", awaited)
            /\ Arrives => ~Waits
        BY <2>4 DEF OneAnswer
      <3>2. Sole(toServer, "CHAT_DIRECT", awaited)' /\ Sole(toMe, "CHAT_DIRECT_ACK", awaited)'
        BY <1>1, <1>3, <1>6, <3>1
      <3>3. CASE h.type = "CHAT_DIRECT_ACK"
        <4>1. Arrives /\ ~Waits /\ ~Arrives' /\ h.n = awaited
          BY <1>3, <1>6, <3>1, <3>3 DEF Arrives
        <4>2. Sole(events, "CHAT_DIRECT_ACK", awaited)'
          BY <1>1, <2>2, <4>1 DEF Waits
        <4>3. QED
          BY <3>2, <4>1, <4>2
      <3>4. CASE h.type # "CHAT_DIRECT_ACK"
        <4>1. Sole(events, "CHAT_DIRECT_ACK", awaited)' /\ (Waits' => Waits)
          BY <1>1, <2>2, <3>1, <3>4 DEF Waits
        <4>2. QED
          BY <3>2, <4>1
      <3>5. QED
        BY <3>3, <3>4
    <2>5. QED
      BY <1>1, <1>4, <2>3, <2>4, AnswerMoves
  <1>7. QED
    BY <1>1, <1>5, <1>6 DEF Receive, isConnected, receiveMessage, receiveEOF, push, pushDisconnect

(* Every step keeps at most one message or answer under way.               *)
LEMMA AnswerStep == TypeOK /\ OneAnswer /\ [Next]_vars => OneAnswer'
  <1> SUFFICES ASSUME TypeOK, OneAnswer, [Next]_vars, program = "runs" PROVE OneAnswer'
    BY NotRunning
  <1>1. ASSUME NEW n \in Mine, Timer(n) PROVE OneAnswer'
    BY <1>1, AnswerStays DEF Timer, Poll, onAckTimeout, setChatFailed, network
  <1>2. CASE UNCHANGED vars
    BY <1>2, AnswerStays DEF vars, network, fsm, history
  <1>3. QED
    BY <1>1, <1>2, ClicksKeepAnswer, EventsKeepAnswer, ServerKeepsAnswer, OthersKeepAnswer, ReceiverKeepsAnswer
    DEF Next

----------------------------------------------------------------------------
(* Timers.                                                                 *)

(* Every step keeps the timers with their messages.                        *)
LEMMA TimerStep == TypeOK /\ OwnTimers /\ [Next]_vars => OwnTimers'
  <1> SUFFICES ASSUME TypeOK, OwnTimers, [Next]_vars PROVE OwnTimers'
    OBVIOUS
  <1>1. ASSUME Forgets PROVE OwnTimers'
    BY <1>1 DEF Forgets, OwnTimers, NoTimers, Off
  <1>2. ASSUME UNCHANGED <<fsm, awaited, unaware, overtaken>> PROVE OwnTimers'
    BY <1>2 DEF OwnTimers, fsm
  <1>3. ASSUME NEW n \in Mine, Timer(n) PROVE OwnTimers'
    <2>1. CASE Poll(n)
      BY <1>3, <2>1 DEF Timer, Poll, Goes, OwnTimers, TypeOK, Off, Fires
    <2>2. CASE onAckTimeout(n)
      BY <1>3, <2>2 DEF Timer, onAckTimeout, Goes, OwnTimers, TypeOK, Off, Fires, Writes
    <2>3. CASE setChatFailed(n)
      BY <1>3, <2>3 DEF Timer, setChatFailed, Goes, OwnTimers, TypeOK, Off, Writes
    <2>4. QED
      BY <1>3, <2>1, <2>2, <2>3 DEF Timer
  <1>4. CASE TypeMessage
    <2>1. typed + 1 \in Mine
      BY <1>4, ChatAssumption DEF TypeMessage, TypeOK, Mine
    <2>2. CASE onSendPrivateChat
      <3>1. /\ chatState = "IDLE" /\ chatState' = "WAIT_ACK" /\ awaited' = typed + 1
            /\ timers' = [timers EXCEPT ![typed + 1] = Fires + Polls]
            /\ overtaken' = (overtaken \/ unaware # {})
        BY <2>2 DEF onSendPrivateChat, startAckTimer
      <3>2. ~overtaken' => \A n \in Mine : timers[n] = Off
        BY <3>1 DEF OwnTimers
      <3>3. ~overtaken' => \A n \in Mine : timers'[n] # Off => n = awaited'
        BY <2>1, <3>1, <3>2 DEF TypeOK
      <3>4. QED
        BY <3>1, <3>3 DEF OwnTimers
    <2>3. CASE SendPrivateChatFails \/ ChatIsBusy
      BY <2>3 DEF SendPrivateChatFails, ChatIsBusy, fsm, OwnTimers
    <2>4. QED
      BY <1>4, <2>2, <2>3 DEF TypeMessage
  <1>5. CASE consumeNetworkEvents
    <2>1. PICK e \in Range(events) : handleMessage(e) \/ CallsGoneScreen(e)
      BY <1>5 DEF consumeNetworkEvents
    <2>2. CASE handleMessage(e)
      <3>1. CASE onServerACK
        BY <2>2, <3>1, HandledEvent DEF onServerACK, stopAckTimer, OwnTimers, fsm
      <3>2. CASE UNCHANGED <<fsm, history>>
        BY <1>2, <3>2 DEF history
      <3>3. QED
        BY <2>2, <3>1, <3>2, HandledEvent DEF onServerDeliverMessage, Shows
    <2>3. QED
      BY <1>1, <2>1, <2>2 DEF CallsGoneScreen
  <1>6. CASE Click /\ ~TypeMessage
    BY <1>1, <1>2, <1>6 DEF Click, onEnter, onExit, SelectFriend, DiesOfSend, CloseWindow, history
  <1>7. CASE Server \/ Peers \/ Network \/ Receiver \/ Joins \/ UNCHANGED vars
    BY <1>2, <1>7 DEF Server, Peers, Network, Receiver, Joins, Blots, Stays, vars, history
  <1>8. QED
    BY <1>3, <1>4, <1>5, <1>6, <1>7 DEF Next


----------------------------------------------------------------------------
(* The window and the table.                                               *)

(* Receiving leaves the stream alone, the rest takes its head or adds.     *)
LEMMA StreamMoves ==
  ASSUME TypeOK
  PROVE  /\ Stream \in Seq(Event)
         /\ events # <<>> => Stream # <<>> /\ Head(Stream) = Head(events)
         /\ events # <<>> /\ events' = Tail(events) /\ toMe' = toMe => Stream' = Tail(Stream)
         /\ \A m \in Event : events' = events /\ toMe' = Append(toMe, m) => Stream' = Append(Stream, m)
         /\ toMe # <<>> /\ events' = Append(events, Head(toMe)) /\ toMe' = Tail(toMe) => Stream' = Stream
  <1>1. toMe \in Seq(Event) /\ events \in Seq(Event)
    BY DEF TypeOK
  <1>2. Stream \in Seq(Event) /\ Len(Stream) = Len(events) + Len(toMe)
        /\ \A i \in 1..Len(Stream) : Stream[i] = IF i <= Len(events) THEN events[i] ELSE toMe[i - Len(events)]
    BY <1>1, ConcatProperties DEF Stream
  <1>3. events # <<>> => Stream # <<>> /\ Head(Stream) = Head(events)
    <2>1. events # <<>> => Len(events) \in Nat \ {0} /\ Len(toMe) \in Nat
      BY <1>1, EmptySeq
    <2>2. events # <<>> => Stream # <<>> /\ Stream[1] = events[1]
      BY <1>2, <2>1
    <2>3. QED
      BY <1>1, <1>2, <2>2, HeadTailProperties
  <1>4. ASSUME events # <<>>, events' = Tail(events), toMe' = toMe PROVE Stream' = Tail(Stream)
    <2>1. /\ Tail(events) \in Seq(Event) /\ Len(Tail(events)) = Len(events) - 1
          /\ Len(events) \in Nat \ {0}
          /\ \A i \in 1..Len(Tail(events)) : Tail(events)[i] = events[i + 1]
      BY <1>1, <1>4, TailOfQueue
    <2>2. /\ Tail(Stream) \in Seq(Event) /\ Len(Tail(Stream)) = Len(Stream) - 1
          /\ \A i \in 1..Len(Tail(Stream)) : i + 1 \in 1..Len(Stream) /\ Tail(Stream)[i] = Stream[i + 1]
      BY <1>2, <1>3, <1>4, TailOfQueue
    <2>3. /\ Tail(events) \o toMe \in Seq(Event)
          /\ Len(Tail(events) \o toMe) = Len(Tail(events)) + Len(toMe)
          /\ \A i \in 1..Len(Tail(events) \o toMe) : (Tail(events) \o toMe)[i] =
               IF i <= Len(Tail(events)) THEN Tail(events)[i] ELSE toMe[i - Len(Tail(events))]
      BY <1>1, <2>1, ConcatProperties
    <2>4. Len(toMe) \in Nat
      BY <1>1, LenProperties
    <2>5. Len(Tail(events) \o toMe) = Len(Tail(Stream))
      BY <1>2, <2>1, <2>2, <2>3, <2>4
    <2>6. ASSUME NEW i \in 1..Len(Tail(Stream)) PROVE (Tail(events) \o toMe)[i] = Tail(Stream)[i]
      <3>1. i \in Nat /\ i + 1 \in 1..Len(Stream) /\ i \in 1..Len(Tail(events) \o toMe)
            /\ Tail(Stream)[i] = Stream[i + 1]
        <4>1. i \in Nat
          OBVIOUS
        <4>2. i \in 1..Len(Tail(events) \o toMe)
          BY <2>5
        <4>3. QED
          BY <2>2, <4>1, <4>2
      <3>2. CASE i <= Len(events) - 1
        BY <1>2, <2>1, <2>3, <3>1, <3>2
      <3>3. CASE ~(i <= Len(events) - 1)
        <4>1. (i + 1) - Len(events) = i - Len(Tail(events)) /\ ~(i + 1 <= Len(events))
          BY <2>1, <3>1, <3>3
        <4>2. QED
          BY <1>2, <2>1, <2>3, <3>1, <3>3, <4>1
      <3>4. QED
        BY <3>2, <3>3
    <2>7. Tail(events) \o toMe = Tail(Stream)
      BY <2>2, <2>3, <2>5, <2>6, SeqEqual
    <2>8. QED
      BY <1>4, <2>7 DEF Stream
  <1>5. ASSUME NEW m \in Event, events' = events, toMe' = Append(toMe, m) PROVE Stream' = Append(Stream, m)
    <2>1. <<m>> \in Seq(Event)
      OBVIOUS
    <2>2. Append(toMe, m) = toMe \o <<m>> /\ Append(Stream, m) = Stream \o <<m>>
      BY <1>1, <1>2, AppendIsConcat
    <2>3. events \o (toMe \o <<m>>) = (events \o toMe) \o <<m>>
      BY <1>1, <2>1, ConcatAssociative
    <2>4. QED
      BY <1>5, <2>2, <2>3 DEF Stream
  <1>6. ASSUME toMe # <<>>, events' = Append(events, Head(toMe)), toMe' = Tail(toMe) PROVE Stream' = Stream
    <2> DEFINE h == Head(toMe)
    <2>1. h \in Event /\ Tail(toMe) \in Seq(Event) /\ <<h>> \in Seq(Event)
      BY <1>1, <1>6, TailOfQueue
    <2>2. Append(events, h) = events \o <<h>>
      BY <1>1, <2>1, AppendIsConcat
    <2>3. toMe = <<h>> \o Tail(toMe)
      BY <1>1, <1>6, HeadTailProperties
    <2>4. (events \o <<h>>) \o Tail(toMe) = events \o (<<h>> \o Tail(toMe))
      BY <1>1, <2>1, ConcatAssociative
    <2>5. QED
      BY <1>6, <2>2, <2>3, <2>4 DEF Stream
  <1>7. QED
    BY <1>2, <1>3, <1>4, <1>5, <1>6

(* Messages on their way, as the queues move.                              *)
LEMMA GoingMoves ==
  ASSUME NEW q \in Seq(Request), NEW r
  PROVE  /\ ~Going(<<>>, r)
         /\ q # <<>> => (Going(q, r) <=> \/ Head(q).type = "CHAT_DIRECT" /\ r = Row(Me, Head(q).peer, Head(q).n)
                                         \/ Going(Tail(q), r))
         /\ \A m \in Request : Going(Append(q, m), r) <=>
              Going(q, r) \/ (m.type = "CHAT_DIRECT" /\ r = Row(Me, m.peer, m.n))
  <1>1. ~Going(<<>>, r)
    BY DEF Going
  <1>2. ASSUME q # <<>>
        PROVE  Going(q, r) <=> \/ Head(q).type = "CHAT_DIRECT" /\ r = Row(Me, Head(q).peer, Head(q).n)
                               \/ Going(Tail(q), r)
    <2>1. /\ Head(q) = q[1] /\ 1 \in 1..Len(q)
          /\ \A i \in 1..Len(Tail(q)) : i + 1 \in 1..Len(q) /\ Tail(q)[i] = q[i + 1]
          /\ \A i \in 1..Len(q) : i = 1 \/ (i - 1 \in 1..Len(Tail(q)) /\ Tail(q)[i - 1] = q[i])
      BY <1>2, TailOfQueue
    <2>2. Going(q, r) => \/ Head(q).type = "CHAT_DIRECT" /\ r = Row(Me, Head(q).peer, Head(q).n)
                         \/ Going(Tail(q), r)
      BY <2>1 DEF Going
    <2>3. Going(Tail(q), r) => Going(q, r)
      BY <2>1 DEF Going
    <2>4. Head(q).type = "CHAT_DIRECT" /\ r = Row(Me, Head(q).peer, Head(q).n) => Going(q, r)
      BY <2>1 DEF Going
    <2>5. QED
      BY <2>2, <2>3, <2>4
  <1>3. ASSUME NEW m \in Request
        PROVE  Going(Append(q, m), r) <=> Going(q, r) \/ (m.type = "CHAT_DIRECT" /\ r = Row(Me, m.peer, m.n))
    <2> DEFINE s == Append(q, m)
    <2>1. /\ s[Len(q) + 1] = m /\ Len(q) + 1 \in 1..Len(s)
          /\ \A i \in 1..Len(q) : i \in 1..Len(s) /\ s[i] = q[i]
          /\ \A i \in 1..Len(s) : (i \in 1..Len(q) /\ s[i] = q[i]) \/ (i = Len(q) + 1 /\ s[i] = m)
      BY MoreOfQueue
    <2> HIDE DEF s
    <2>2. Going(s, r) => Going(q, r) \/ (m.type = "CHAT_DIRECT" /\ r = Row(Me, m.peer, m.n))
      BY <2>1 DEF Going
    <2>3. Going(q, r) => Going(s, r)
      BY <2>1 DEF Going
    <2>4. m.type = "CHAT_DIRECT" /\ r = Row(Me, m.peer, m.n) => Going(s, r)
      BY <2>1 DEF Going
    <2>5. QED
      BY <2>2, <2>3, <2>4 DEF s
  <1>4. QED
    BY <1>1, <1>2, <1>3

(* What is coming behind a message, when the head of the queue is taken.   *)
LEMMA ComingMoves ==
  ASSUME NEW s \in Seq(Event), NEW r
  PROVE  /\ \A i : ~Coming(<<>>, i, r)
         /\ s # <<>> => (Coming(s, 0, r) <=> \/ Head(s).type = "CHAT_DIRECT" /\ r \in Brings(Head(s))
                                             \/ Coming(Tail(s), 0, r))
         /\ s # <<>> => \A i \in 1..Len(s) : Coming(s, i, r) <=> Coming(Tail(s), i - 1, r)
         /\ \A m \in Event, i \in 0..Len(s) : Coming(Append(s, m), i, r) <=>
              Coming(s, i, r) \/ (m.type = "CHAT_DIRECT" /\ r \in Brings(m))
         /\ \A m \in Event : ~Coming(Append(s, m), Len(s) + 1, r)
  <1>1. \A i : ~Coming(<<>>, i, r)
    BY DEF Coming
  <1>2. ASSUME s # <<>>
        PROVE  /\ Coming(s, 0, r) <=> \/ Head(s).type = "CHAT_DIRECT" /\ r \in Brings(Head(s))
                                      \/ Coming(Tail(s), 0, r)
               /\ \A i \in 1..Len(s) : Coming(s, i, r) <=> Coming(Tail(s), i - 1, r)
    <2>1. /\ Head(s) = s[1] /\ 1 \in 1..Len(s) /\ Len(s) \in Nat
          /\ \A i \in 1..Len(Tail(s)) : i + 1 \in 1..Len(s) /\ Tail(s)[i] = s[i + 1]
          /\ \A i \in 1..Len(s) : i = 1 \/ (i - 1 \in 1..Len(Tail(s)) /\ Tail(s)[i - 1] = s[i])
      BY <1>2, TailOfQueue
    <2>2. ASSUME NEW j \in 1..Len(s), s[j].type = "CHAT_DIRECT", r \in Brings(s[j])
          PROVE  (Head(s).type = "CHAT_DIRECT" /\ r \in Brings(Head(s))) \/ Coming(Tail(s), 0, r)
      <3>1. CASE j = 1
        BY <2>1, <2>2, <3>1
      <3>2. CASE j - 1 \in 1..Len(Tail(s)) /\ Tail(s)[j - 1] = s[j]
        <4>1. j - 1 > 0
          BY <3>2
        <4>2. QED
          BY <2>2, <3>2, <4>1 DEF Coming
      <3>3. QED
        BY <2>1, <3>1, <3>2
    <2>3. ASSUME NEW j \in 1..Len(Tail(s)), Tail(s)[j].type = "CHAT_DIRECT", r \in Brings(Tail(s)[j])
          PROVE  Coming(s, 0, r)
      <3>1. j + 1 > 0 /\ j + 1 \in 1..Len(s) /\ s[j + 1] = Tail(s)[j]
        BY <2>1
      <3>2. QED
        BY <2>3, <3>1 DEF Coming
    <2>4. Head(s).type = "CHAT_DIRECT" /\ r \in Brings(Head(s)) => Coming(s, 0, r)
      <3>1. 1 > 0
        OBVIOUS
      <3>2. QED
        BY <2>1, <3>1 DEF Coming
    <2>5. ASSUME NEW i \in 1..Len(s) PROVE Coming(s, i, r) <=> Coming(Tail(s), i - 1, r)
      <3>1. ASSUME NEW j \in 1..Len(s), j > i, s[j].type = "CHAT_DIRECT", r \in Brings(s[j])
            PROVE  Coming(Tail(s), i - 1, r)
        <4>1. j - 1 \in 1..Len(Tail(s)) /\ Tail(s)[j - 1] = s[j] /\ j - 1 > i - 1
          BY <2>1, <3>1
        <4>2. QED
          BY <3>1, <4>1 DEF Coming
      <3>2. ASSUME NEW j \in 1..Len(Tail(s)), j > i - 1, Tail(s)[j].type = "CHAT_DIRECT", r \in Brings(Tail(s)[j])
            PROVE  Coming(s, i, r)
        <4>1. j + 1 \in 1..Len(s) /\ s[j + 1] = Tail(s)[j] /\ j + 1 > i
          BY <2>1, <3>2
        <4>2. QED
          BY <3>2, <4>1 DEF Coming
      <3>3. QED
        BY <3>1, <3>2 DEF Coming
    <2>6. Coming(s, 0, r) <=> \/ Head(s).type = "CHAT_DIRECT" /\ r \in Brings(Head(s))
                              \/ Coming(Tail(s), 0, r)
      BY <2>2, <2>3, <2>4 DEF Coming
    <2>7. QED
      BY <2>5, <2>6
  <1>3. ASSUME NEW m \in Event
        PROVE  /\ \A i \in 0..Len(s) : Coming(Append(s, m), i, r) <=>
                    Coming(s, i, r) \/ (m.type = "CHAT_DIRECT" /\ r \in Brings(m))
               /\ ~Coming(Append(s, m), Len(s) + 1, r)
    <2> DEFINE t == Append(s, m)
    <2>1. /\ t[Len(s) + 1] = m /\ Len(s) + 1 \in 1..Len(t) /\ Len(s) \in Nat /\ Len(t) = Len(s) + 1
          /\ \A i \in 1..Len(s) : i \in 1..Len(t) /\ t[i] = s[i]
          /\ \A i \in 1..Len(t) : (i \in 1..Len(s) /\ t[i] = s[i]) \/ (i = Len(s) + 1 /\ t[i] = m)
      BY MoreOfQueue
    <2> HIDE DEF t
    <2>2. ASSUME NEW i \in 0..Len(s)
          PROVE  Coming(t, i, r) <=> Coming(s, i, r) \/ (m.type = "CHAT_DIRECT" /\ r \in Brings(m))
      <3>1. Coming(t, i, r) => Coming(s, i, r) \/ (m.type = "CHAT_DIRECT" /\ r \in Brings(m))
        BY <2>1 DEF Coming
      <3>2. Coming(s, i, r) => Coming(t, i, r)
        BY <2>1 DEF Coming
      <3>3. Len(s) + 1 > i
        BY <2>1
      <3>4. m.type = "CHAT_DIRECT" /\ r \in Brings(m) => Coming(t, i, r)
        BY <2>1, <3>3 DEF Coming
      <3>5. QED
        BY <3>1, <3>2, <3>4
    <2>3. ~Coming(t, Len(s) + 1, r)
      BY <2>1 DEF Coming
    <2>4. QED
      BY <2>2, <2>3 DEF t
  <1>4. QED
    BY <1>1, <1>2, <1>3


----------------------------------------------------------------------------
(* Numbers.                                                                *)

(* Rows from the past remain so while the numbers grow.                    *)
LEMMA NumbersStay ==
  ASSUME typed \in Nat, theirs \in Nat, typed' \in Nat, theirs' \in Nat, typed' >= typed, theirs' >= theirs,
         NEW b, Numbers(b, typed, theirs)
  PROVE  Numbers(b, typed', theirs')
  <1>1. ASSUME NEW r \in DOMAIN b PROVE (r.from = Me => r.n <= typed') /\ (r.to = Me => r.n <= theirs')
    <2>1. r.n \in Nat
      BY DEF Numbers, RowType
    <2>2. (r.from = Me => r.n <= typed) /\ (r.to = Me => r.n <= theirs)
      BY DEF Numbers
    <2>3. QED
      BY <2>1, <2>2
  <1>2. QED
    BY <1>1 DEF Numbers

(* An empty bag has no row from the future.                                *)
LEMMA NumbersOfNothing == Numbers(EmptyBag, typed', theirs')
  BY BagOperators DEF Numbers, EmptyBag, SetToBag

(* A bag with one more row from the past, that was not in it.              *)
LEMMA NumbersOfMore ==
  ASSUME NEW b, Numbers(b, typed', theirs'), NEW r \in RowType, r \notin DOMAIN b,
         r.from = Me => r.n <= typed', r.to = Me => r.n <= theirs'
  PROVE  Numbers(BagAdd(b, r), typed', theirs')
  <1> DEFINE c == BagAdd(b, r)
  <1>1. DOMAIN b \subseteq RowType /\ b = [x \in DOMAIN b |-> 1]
        /\ \A x \in DOMAIN b : (x.from = Me => x.n <= typed') /\ (x.to = Me => x.n <= theirs')
    BY DEF Numbers
  <1>2. c = [x \in DOMAIN b \cup {r} |-> IF x = r THEN 1 ELSE b[x]]
    BY DEF BagAdd
  <1>3. \A x \in DOMAIN b : b[x] = 1
    BY <1>1
  <1>4. DOMAIN c = DOMAIN b \cup {r} /\ c = [x \in DOMAIN c |-> 1]
    BY <1>2, <1>3
  <1>5. QED
    BY <1>1, <1>4 DEF Numbers

(* A history has rows of the table only, each once.                        *)
LEMMA NumbersOfHistory ==
  ASSUME privateChats \in RowBag, Numbers(privateChats, typed, theirs), NEW p \in Peer,
         NEW found \in SUBSET Saved
  PROVE  Numbers(getPrivateChatHistory(p, found), typed, theirs)
  <1> DEFINE h == getPrivateChatHistory(p, found)
  <1>1. h \in RowBag /\ \A r \in DOMAIN h : r \in DOMAIN privateChats /\ h[r] = privateChats[r]
    BY HistoryIsRows
  <1>2. /\ \A r \in DOMAIN privateChats : privateChats[r] = 1
        /\ DOMAIN privateChats \subseteq RowType
        /\ \A r \in DOMAIN privateChats : (r.from = Me => r.n <= typed) /\ (r.to = Me => r.n <= theirs)
    BY DEF Numbers
  <1> HIDE DEF h
  <1>3. h \in [DOMAIN h -> Nat \ {0}]
    BY <1>1, BagsOfRows
  <1>4. h = [r \in DOMAIN h |-> 1]
    BY <1>1, <1>2, <1>3
  <1>5. QED
    BY <1>1, <1>2, <1>4 DEF Numbers, h

(* What a message on its way to the client brings is a row that a peer has *)
(* written already.                                                        *)
LEMMA BroughtRows ==
  ASSUME TypeOK, Numbered, NEW i \in 1..Len(Stream), NEW r \in Brings(Stream[i])
  PROVE  r \in RowType /\ (r.to = Me => r.n <= theirs)
  <1>1. Stream[i] \in Event
    BY StreamMoves, ElementOfSeq
  <1>2. /\ Stream[i].type = "CHAT_DIRECT" => Stream[i].from \in Peer /\ Stream[i].n \in Nat /\ Stream[i].n <= theirs
        /\ Stream[i].type = "PRIVATE_CHAT_HISTORY_RESPONSE" => Numbers(Stream[i].rows, typed, theirs)
    BY DEF Numbered, StreamOrder
  <1>3. CASE Stream[i].type = "CHAT_DIRECT"
    <2>1. r = Row(Stream[i].from, Me, Stream[i].n)
      BY <1>3 DEF Brings
    <2>2. QED
      BY <1>2, <1>3, <2>1, RowTypes
  <1>4. CASE Stream[i].type = "PRIVATE_CHAT_HISTORY_RESPONSE"
    <2>1. r \in DOMAIN Stream[i].rows
      BY <1>4 DEF Brings
    <2>2. QED
      BY <1>2, <1>4, <2>1 DEF Numbers
  <1>5. QED
    BY <1>1, <1>3, <1>4 DEF Brings

(* The rest of the stream is in order.                                     *)
LEMMA OrderOfTail ==
  ASSUME TypeOK, Numbered, Stream # <<>>, Stream' = Tail(Stream), UNCHANGED <<typed, theirs>>,
         DOMAIN chatBubbles' \subseteq DOMAIN chatBubbles \cup Brings(Head(Stream))
  PROVE  StreamOrder(Stream)'
  <1> DEFINE s == Stream  t == Tail(Stream)
  <1>1. /\ Head(s) = s[1] /\ 1 \in 1..Len(s)
        /\ \A i \in 1..Len(t) : i + 1 \in 1..Len(s) /\ t[i] = s[i + 1]
    BY StreamMoves, TailOfQueue
  <1>2. StreamOrder(s)
    BY DEF Numbered
  <1> SUFFICES ASSUME NEW i \in 1..Len(t)
               PROVE  /\ t[i].type = "CHAT_DIRECT" => t[i].from \in Peer /\ t[i].n \in Nat /\ t[i].n <= theirs'
                      /\ t[i].type = "PRIVATE_CHAT_HISTORY_RESPONSE" => Numbers(t[i].rows, typed', theirs')
                      /\ Older(DOMAIN chatBubbles', t[i])
                      /\ \A j \in 1..Len(t) : i < j => Older(Brings(t[i]), t[j])
    BY DEF StreamOrder
  <1>3. i + 1 \in 1..Len(s) /\ t[i] = s[i + 1] /\ 1 < i + 1
    BY <1>1
  <1> HIDE DEF s, t
  <1>4. /\ t[i].type = "CHAT_DIRECT" => t[i].from \in Peer /\ t[i].n \in Nat /\ t[i].n <= theirs
        /\ t[i].type = "PRIVATE_CHAT_HISTORY_RESPONSE" => Numbers(t[i].rows, typed, theirs)
        /\ Older(DOMAIN chatBubbles, t[i])
    BY <1>2, <1>3 DEF StreamOrder
  <1>5. t[i].type = "PRIVATE_CHAT_HISTORY_RESPONSE" => Numbers(t[i].rows, typed', theirs')
    BY <1>4 DEF Numbers
  <1>6. Older(Brings(s[1]), t[i])
    BY <1>1, <1>2, <1>3 DEF StreamOrder
  <1>7. Older(DOMAIN chatBubbles', t[i])
    <2>1. DOMAIN chatBubbles' \subseteq DOMAIN chatBubbles \cup Brings(s[1])
      BY <1>1 DEF s
    <2>2. QED
      BY <1>4, <1>6, <2>1 DEF Older
  <1>8. ASSUME NEW j \in 1..Len(t), i < j PROVE Older(Brings(t[i]), t[j])
    <2>1. i + 1 < j + 1 /\ j + 1 \in 1..Len(s) /\ t[j] = s[j + 1]
      BY <1>1, <1>8
    <2>2. Older(Brings(s[i + 1]), s[j + 1])
      BY <1>2, <1>3, <2>1 DEF StreamOrder
    <2>3. QED
      BY <1>3, <2>1, <2>2
  <1>9. QED
    BY <1>4, <1>5, <1>7, <1>8

(* A message from the present, behind the others, keeps the stream in      *)
(* order.                                                                  *)
LEMMA OrderOfMore ==
  ASSUME TypeOK, Numbered, NEW m \in Event, Stream' = Append(Stream, m),
         UNCHANGED typed, theirs' \in Nat, theirs' >= theirs,
         DOMAIN chatBubbles' \subseteq DOMAIN chatBubbles,
         m.type = "CHAT_DIRECT" => m.n = theirs + 1 /\ theirs' = theirs + 1,
         m.type = "PRIVATE_CHAT_HISTORY_RESPONSE" => Numbers(m.rows, typed, theirs)
  PROVE  StreamOrder(Stream)'
  <1> DEFINE s == Stream  t == Append(Stream, m)
  <1>1. /\ \A i \in 1..Len(t) : (i \in 1..Len(s) /\ t[i] = s[i]) \/ (i = Len(s) + 1 /\ t[i] = m)
        /\ Len(s) \in Nat
    BY StreamMoves, MoreOfQueue
  <1>2. StreamOrder(s) /\ Numbers(chatBubbles, typed, theirs) /\ typed \in Nat /\ theirs \in Nat
    BY DEF Numbered, TypeOK
  <1>3. \A b : Numbers(b, typed, theirs) => Numbers(b, typed', theirs')
    BY <1>2, NumbersStay
  <1>4. ASSUME NEW rows, m.type = "CHAT_DIRECT", \A r \in rows : r \in RowType /\ (r.to = Me => r.n <= theirs)
        PROVE  Older(rows, m)
    <2>1. \A r \in rows : r.to = Me => r.n < m.n
      BY <1>2, <1>4 DEF RowType
    <2>2. QED
      BY <2>1 DEF Older
  <1>5. Older(DOMAIN chatBubbles, m) /\ \A i \in 1..Len(s) : Older(Brings(s[i]), m)
    <2>1. CASE m.type = "CHAT_DIRECT"
      <3>1. \A r \in DOMAIN chatBubbles : r \in RowType /\ (r.to = Me => r.n <= theirs)
        BY <1>2 DEF Numbers
      <3>2. \A i \in 1..Len(s) : \A r \in Brings(s[i]) : r \in RowType /\ (r.to = Me => r.n <= theirs)
        BY BroughtRows
      <3>3. QED
        BY <1>4, <2>1, <3>1, <3>2
    <2>2. CASE m.type # "CHAT_DIRECT"
      BY <2>2 DEF Older
    <2>3. QED
      BY <2>1, <2>2
  <1> SUFFICES ASSUME NEW i \in 1..Len(t)
               PROVE  /\ t[i].type = "CHAT_DIRECT" => t[i].from \in Peer /\ t[i].n \in Nat /\ t[i].n <= theirs'
                      /\ t[i].type = "PRIVATE_CHAT_HISTORY_RESPONSE" => Numbers(t[i].rows, typed', theirs')
                      /\ Older(DOMAIN chatBubbles', t[i])
                      /\ \A j \in 1..Len(t) : i < j => Older(Brings(t[i]), t[j])
    BY DEF StreamOrder
  <1> HIDE DEF s, t
  <1>6. Older(DOMAIN chatBubbles, t[i]) => Older(DOMAIN chatBubbles', t[i])
    BY DEF Older
  <1>7. CASE i \in 1..Len(s) /\ t[i] = s[i]
    <2>1. /\ t[i].type = "CHAT_DIRECT" => t[i].from \in Peer /\ t[i].n \in Nat /\ t[i].n <= theirs
          /\ t[i].type = "PRIVATE_CHAT_HISTORY_RESPONSE" => Numbers(t[i].rows, typed, theirs)
          /\ Older(DOMAIN chatBubbles, t[i])
          /\ \A j \in 1..Len(s) : i < j => Older(Brings(t[i]), s[j])
      BY <1>2, <1>7 DEF StreamOrder
    <2>2. \A j \in 1..Len(t) : i < j => Older(Brings(t[i]), t[j])
      BY <1>1, <1>5, <1>7, <2>1
    <2>3. t[i].type = "CHAT_DIRECT" => t[i].n <= theirs'
      BY <1>2, <2>1
    <2>4. QED
      BY <1>3, <1>6, <2>1, <2>2, <2>3
  <1>8. CASE i = Len(s) + 1 /\ t[i] = m
    <2>1. \A j \in 1..Len(t) : ~(i < j)
      BY <1>1, <1>8
    <2>2. m.type = "CHAT_DIRECT" => m.from \in Peer /\ m.n \in Nat /\ m.n <= theirs'
      BY <1>2, Fields
    <2>3. QED
      BY <1>3, <1>5, <1>6, <1>8, <2>1, <2>2
  <1>9. QED
    BY <1>1, <1>7, <1>8

(* The stream remains in order while the numbers grow.                     *)
LEMMA OrderStays ==
  ASSUME TypeOK, Numbered, Stream' = Stream, UNCHANGED theirs, typed' \in Nat, typed' >= typed,
         \A r \in DOMAIN chatBubbles' : r.to = Me => r \in DOMAIN chatBubbles
  PROVE  StreamOrder(Stream)'
  <1>1. StreamOrder(Stream) /\ typed \in Nat /\ theirs \in Nat
    BY DEF Numbered, TypeOK
  <1>2. \A b : Numbers(b, typed, theirs) => Numbers(b, typed', theirs')
    BY <1>1, NumbersStay
  <1>3. \A m : Older(DOMAIN chatBubbles, m) => Older(DOMAIN chatBubbles', m)
    BY DEF Older
  <1>4. QED
    BY <1>1, <1>2, <1>3 DEF StreamOrder

(* The rest of the requests is in order.                                   *)
LEMMA RequestsOfTail ==
  ASSUME TypeOK, Numbered, toServer # <<>>, toServer' = Tail(toServer), UNCHANGED typed,
         \A r \in DOMAIN privateChats' :
           \/ r \in DOMAIN privateChats
           \/ Head(toServer).type = "CHAT_DIRECT" /\ r = Row(Me, Head(toServer).peer, Head(toServer).n)
  PROVE  RequestOrder(toServer)'
  <1> DEFINE s == toServer  t == Tail(toServer)
  <1>1. /\ Head(s) = s[1] /\ 1 \in 1..Len(s)
        /\ \A i \in 1..Len(t) : i + 1 \in 1..Len(s) /\ t[i] = s[i + 1]
    BY TailOfQueue DEF TypeOK
  <1>2. RequestOrder(s)
    BY DEF Numbered
  <1> SUFFICES ASSUME NEW i \in 1..Len(t), t[i].type = "CHAT_DIRECT"
               PROVE  /\ t[i].n \in Nat /\ t[i].n <= typed'
                      /\ \A r \in DOMAIN privateChats' : r.from = Me => r.n < t[i].n
                      /\ \A j \in 1..Len(t) : i < j /\ t[j].type = "CHAT_DIRECT" => t[i].n < t[j].n
    BY DEF RequestOrder
  <1>3. i + 1 \in 1..Len(s) /\ t[i] = s[i + 1] /\ 1 < i + 1
    BY <1>1
  <1>4. Head(s).type = "CHAT_DIRECT" => Head(s).n < t[i].n
    BY <1>1, <1>2, <1>3 DEF RequestOrder
  <1>5. t[i].n \in Nat /\ t[i].n <= typed /\ \A r \in DOMAIN privateChats : r.from = Me => r.n < t[i].n
    BY <1>2, <1>3 DEF RequestOrder
  <1>6. ASSUME NEW j \in 1..Len(t), i < j, t[j].type = "CHAT_DIRECT" PROVE t[i].n < t[j].n
    <2>1. i + 1 < j + 1 /\ j + 1 \in 1..Len(s) /\ t[j] = s[j + 1]
      BY <1>1, <1>6
    <2>2. QED
      BY <1>2, <1>3, <1>6, <2>1 DEF RequestOrder
  <1>7. \A r \in DOMAIN privateChats' : r.from = Me => r.n < t[i].n
    BY <1>4, <1>5, RowTypes
  <1>8. QED
    BY <1>5, <1>6, <1>7

(* The requests remain in order while the numbers grow.                    *)
LEMMA RequestsStay ==
  ASSUME TypeOK, Numbered, toServer' = toServer, typed' \in Nat, typed' >= typed,
         \A r \in DOMAIN privateChats' : r.from = Me => r \in DOMAIN privateChats
  PROVE  RequestOrder(toServer)'
  <1>1. RequestOrder(toServer) /\ typed \in Nat
    BY DEF Numbered, TypeOK
  <1>2. \A n \in Nat : n <= typed => n <= typed'
    BY <1>1
  <1>3. QED
    BY <1>1, <1>2 DEF RequestOrder

(* A new message, behind the others, keeps the requests in order.          *)
LEMMA RequestsOfMore ==
  ASSUME TypeOK, Numbered, NEW m \in Request, toServer' = Append(toServer, m),
         typed' \in Nat, typed' >= typed, UNCHANGED privateChats,
         m.type = "CHAT_DIRECT" => m.n = typed + 1 /\ typed' = typed + 1
  PROVE  RequestOrder(toServer)'
  <1> DEFINE s == toServer  t == Append(toServer, m)
  <1>1. /\ \A i \in 1..Len(t) : (i \in 1..Len(s) /\ t[i] = s[i]) \/ (i = Len(s) + 1 /\ t[i] = m)
        /\ Len(s) \in Nat
    BY MoreOfQueue DEF TypeOK
  <1>2. RequestOrder(s) /\ typed \in Nat /\ Numbers(privateChats, typed, theirs)
    BY DEF Numbered, TypeOK
  <1> SUFFICES ASSUME NEW i \in 1..Len(t), t[i].type = "CHAT_DIRECT"
               PROVE  /\ t[i].n \in Nat /\ t[i].n <= typed'
                      /\ \A r \in DOMAIN privateChats' : r.from = Me => r.n < t[i].n
                      /\ \A j \in 1..Len(t) : i < j /\ t[j].type = "CHAT_DIRECT" => t[i].n < t[j].n
    BY DEF RequestOrder
  <1> HIDE DEF s, t
  <1>3. CASE i \in 1..Len(s) /\ t[i] = s[i]
    <2>1. /\ t[i].n \in Nat /\ t[i].n <= typed
          /\ \A r \in DOMAIN privateChats : r.from = Me => r.n < t[i].n
          /\ \A j \in 1..Len(s) : i < j /\ s[j].type = "CHAT_DIRECT" => t[i].n < s[j].n
      BY <1>2, <1>3 DEF RequestOrder
    <2>2. t[i].n <= typed'
      BY <1>2, <2>1
    <2>3. m.type = "CHAT_DIRECT" => t[i].n < m.n
      BY <1>2, <2>1
    <2>4. \A j \in 1..Len(t) : i < j /\ t[j].type = "CHAT_DIRECT" => t[i].n < t[j].n
      BY <1>1, <2>1, <2>3
    <2>5. QED
      BY <2>1, <2>2, <2>4
  <1>4. CASE i = Len(s) + 1 /\ t[i] = m
    <2>1. \A j \in 1..Len(t) : ~(i < j)
      BY <1>1, <1>4
    <2>2. m.n \in Nat /\ m.n <= typed' /\ m.n > typed
      BY <1>2, <1>4
    <2>3. \A r \in DOMAIN privateChats : r.from = Me => r.n < m.n
      <3>1. \A r \in DOMAIN privateChats : r.from = Me => r.n \in Nat /\ r.n <= typed
        BY <1>2 DEF Numbers, RowType
      <3>2. QED
        BY <1>2, <2>2, <3>1
    <2>4. QED
      BY <1>4, <2>1, <2>2, <2>3
  <1>5. QED
    BY <1>1, <1>3, <1>4


----------------------------------------------------------------------------
(* How the window and the table come together.                             *)

(* Something that is not a list is put on the way to the client, and the   *)
(* server may have taken a request that is not for one.                    *)
LEMMA ConvergesWithMore ==
  ASSUME NEW q \in Seq(Request), NEW q2 \in Seq(Request), NEW s \in Seq(Event), NEW m \in Event,
         NEW bubbles, NEW table, NEW table2, NEW p, Converges(q, s, bubbles, table, p),
         m.type # "PRIVATE_CHAT_HISTORY_RESPONSE",
         q2 = q \/ (q # <<>> /\ q2 = Tail(q) /\ Head(q).type # "PRIVATE_CHAT_HISTORY_REQUEST"),
         \A r \in Between(p) : r \in table2 \/ Going(q2, r) <=>
           r \in table \/ Going(q, r) \/ (m.type = "CHAT_DIRECT" /\ r \in Brings(m))
  PROVE  Converges(q2, Append(s, m), bubbles, table2, p)
  <1> DEFINE t == Append(s, m)
  <1>1. /\ \A i \in 1..Len(s) : i \in 1..Len(t) /\ t[i] = s[i]
        /\ \A i \in 1..Len(t) : (i \in 1..Len(s) /\ t[i] = s[i]) \/ (i = Len(s) + 1 /\ t[i] = m)
    BY MoreOfQueue
  <1>2. \A r, i : i \in 0..Len(s) =>
          (Coming(t, i, r) <=> Coming(s, i, r) \/ (m.type = "CHAT_DIRECT" /\ r \in Brings(m)))
    BY ComingMoves
  <1>3. 0 \in 0..Len(s) /\ \A i \in 1..Len(s) : i \in 0..Len(s)
    BY LenProperties
  <1> HIDE DEF t
  <1>4. \A i, rows : i \in 0..Len(s) /\ Settled(rows, i, q, s, table, p) => Settled(rows, i, q2, t, table2, p)
    BY <1>2 DEF Settled
  <1>5. CASE LastAsked(q, p)
    <2>1. CASE q2 = q
      BY <1>5, <2>1 DEF Converges
    <2>2. CASE q # <<>> /\ q2 = Tail(q) /\ Head(q).type # "PRIVATE_CHAT_HISTORY_REQUEST"
      <3>1. PICK i \in 1..Len(q) :
              /\ q[i].type = "PRIVATE_CHAT_HISTORY_REQUEST" /\ q[i].peer = p
              /\ \A j \in 1..Len(q) : j > i => q[j].type \notin {"PRIVATE_CHAT_HISTORY_REQUEST", "CHAT_DIRECT"}
        BY <1>5 DEF LastAsked
      <3>2. /\ Head(q) = q[1]
            /\ \A j \in 1..Len(q2) : j + 1 \in 1..Len(q) /\ q2[j] = q[j + 1]
            /\ \A j \in 1..Len(q) : j = 1 \/ (j - 1 \in 1..Len(q2) /\ q2[j - 1] = q[j])
        BY <2>2, TailOfQueue
      <3>3. i - 1 \in 1..Len(q2) /\ q2[i - 1] = q[i]
        BY <2>2, <3>1, <3>2
      <3>4. \A j \in 1..Len(q2) : j > i - 1 =>
              q2[j].type \notin {"PRIVATE_CHAT_HISTORY_REQUEST", "CHAT_DIRECT"}
        <4>1. \A j \in 1..Len(q2) : j > i - 1 => j + 1 > i
          OBVIOUS
        <4>2. QED
          BY <3>1, <3>2, <4>1
      <3>5. LastAsked(q2, p)
        BY <3>1, <3>3, <3>4 DEF LastAsked
      <3>6. QED
        BY <3>5 DEF Converges
    <2>3. QED
      BY <2>1, <2>2
  <1>6. CASE ~Has(q, "PRIVATE_CHAT_HISTORY_REQUEST") /\ ~LastAsked(q, p)
    <2>1. ~Has(q2, "PRIVATE_CHAT_HISTORY_REQUEST")
      BY <1>6, TailHas
    <2>2. CASE LastSettles(q, s, table, p)
      <3>1. PICK i \in 1..Len(s) :
              /\ s[i].type = "PRIVATE_CHAT_HISTORY_RESPONSE"
              /\ \A j \in 1..Len(s) : j > i => s[j].type # "PRIVATE_CHAT_HISTORY_RESPONSE"
              /\ Settled(DOMAIN s[i].rows, i, q, s, table, p)
        BY <2>2 DEF LastSettles
      <3>2. i \in 1..Len(t) /\ t[i] = s[i]
        BY <1>1
      <3>3. \A j \in 1..Len(t) : j > i => t[j].type # "PRIVATE_CHAT_HISTORY_RESPONSE"
        BY <1>1, <3>1
      <3>4. Settled(DOMAIN t[i].rows, i, q2, t, table2, p)
        BY <1>3, <1>4, <3>1, <3>2
      <3>5. LastSettles(q2, t, table2, p)
        BY <3>1, <3>2, <3>3, <3>4 DEF LastSettles
      <3>6. QED
        BY <2>1, <3>5 DEF Converges, t
    <2>3. CASE ~Has(s, "PRIVATE_CHAT_HISTORY_RESPONSE") /\ Settled(bubbles, 0, q, s, table, p)
      <3>1. Settled(bubbles, 0, q2, t, table2, p)
        BY <1>3, <1>4, <2>3
      <3>2. ~Has(t, "PRIVATE_CHAT_HISTORY_RESPONSE")
        BY <2>3, MoreHas DEF t
      <3>3. QED
        BY <2>1, <3>1, <3>2 DEF Converges, t
    <2>4. QED
      BY <1>6, <2>2, <2>3 DEF Converges
  <1>7. QED
    BY <1>5, <1>6 DEF Converges

(* The server answers a request for a list, with all rows there are if it  *)
(* is the list of the friend selected.                                     *)
LEMMA ConvergesWithList ==
  ASSUME NEW q \in Seq(Request), NEW s \in Seq(Event), NEW m \in Event,
         NEW bubbles, NEW table, NEW p, Converges(q, s, bubbles, table, p),
         q # <<>>, Head(q).type = "PRIVATE_CHAT_HISTORY_REQUEST",
         m.type = "PRIVATE_CHAT_HISTORY_RESPONSE",
         Head(q).peer = p => DOMAIN m.rows = table \cap Between(p)
  PROVE  Converges(Tail(q), Append(s, m), bubbles, table, p)
  <1> DEFINE t == Append(s, m)  q2 == Tail(q)
  <1>1. /\ t[Len(s) + 1] = m /\ Len(s) + 1 \in 1..Len(t) /\ Len(t) = Len(s) + 1
    BY MoreOfQueue
  <1>2. /\ Head(q) = q[1] /\ 1 \in 1..Len(q) /\ q2 \in Seq(Request)
        /\ \A j \in 1..Len(q2) : j + 1 \in 1..Len(q) /\ q2[j] = q[j + 1]
        /\ \A j \in 1..Len(q) : j = 1 \/ (j - 1 \in 1..Len(q2) /\ q2[j - 1] = q[j])
    BY TailOfQueue
  <1>3. Has(q, "PRIVATE_CHAT_HISTORY_REQUEST")
    BY <1>2 DEF Has
  <1>4. PICK i \in 1..Len(q) :
          /\ q[i].type = "PRIVATE_CHAT_HISTORY_REQUEST" /\ q[i].peer = p
          /\ \A j \in 1..Len(q) : j > i => q[j].type \notin {"PRIVATE_CHAT_HISTORY_REQUEST", "CHAT_DIRECT"}
    BY <1>3 DEF Converges, LastAsked
  <1>5. \A r : ~Coming(t, Len(s) + 1, r)
    BY ComingMoves
  <1> HIDE DEF t, q2
  <1>6. CASE i = 1
    <2>1. \A j \in 1..Len(q2) : q2[j].type \notin {"PRIVATE_CHAT_HISTORY_REQUEST", "CHAT_DIRECT"}
      <3>1. \A j \in 1..Len(q2) : j + 1 > 1
        OBVIOUS
      <3>2. QED
        BY <1>2, <1>4, <1>6, <3>1
    <2>2. ~Has(q2, "PRIVATE_CHAT_HISTORY_REQUEST") /\ \A r : ~Going(q2, r)
      BY <2>1 DEF Has, Going
    <2>3. DOMAIN m.rows = table \cap Between(p)
      BY <1>2, <1>4, <1>6
    <2>4. Settled(DOMAIN m.rows, Len(s) + 1, q2, t, table, p)
      BY <1>5, <2>2, <2>3 DEF Settled
    <2>5. \A j \in 1..Len(t) : ~(j > Len(s) + 1)
      BY <1>1
    <2>6. LastSettles(q2, t, table, p)
      BY <1>1, <2>4, <2>5 DEF LastSettles
    <2>7. QED
      BY <2>2, <2>6 DEF Converges, t, q2
  <1>7. CASE i # 1
    <2>1. i - 1 \in 1..Len(q2) /\ q2[i - 1] = q[i]
      BY <1>2, <1>7
    <2>2. \A j \in 1..Len(q2) : j > i - 1 => q2[j].type \notin {"PRIVATE_CHAT_HISTORY_REQUEST", "CHAT_DIRECT"}
      BY <1>2, <1>4
    <2>3. LastAsked(q2, p)
      BY <1>4, <2>1, <2>2 DEF LastAsked
    <2>4. QED
      BY <2>3 DEF Converges, q2
  <1>8. QED
    BY <1>6, <1>7

(* The client takes the head of the stream.                                *)
LEMMA ConvergesWithLess ==
  ASSUME NEW q \in Seq(Request), NEW s \in Seq(Event), s # <<>>,
         NEW bubbles, NEW bubbles2, NEW table, NEW p, Converges(q, s, bubbles, table, p),
         Head(s).type = "PRIVATE_CHAT_HISTORY_RESPONSE" => bubbles2 = DOMAIN Head(s).rows,
         Head(s).type = "CHAT_DIRECT" => bubbles2 = bubbles \cup (Brings(Head(s)) \cap Between(p)),
         Head(s).type \notin {"CHAT_DIRECT", "PRIVATE_CHAT_HISTORY_RESPONSE"} => bubbles2 = bubbles
  PROVE  Converges(q, Tail(s), bubbles2, table, p)
  <1> DEFINE t == Tail(s)  h == Head(s)
  <1>1. /\ h = s[1] /\ 1 \in 1..Len(s) /\ t \in Seq(Event)
        /\ \A j \in 1..Len(t) : j + 1 \in 1..Len(s) /\ t[j] = s[j + 1]
        /\ \A j \in 1..Len(s) : j = 1 \/ (j - 1 \in 1..Len(t) /\ t[j - 1] = s[j])
    BY TailOfQueue
  <1>2. /\ \A r : Coming(s, 0, r) <=> (h.type = "CHAT_DIRECT" /\ r \in Brings(h)) \/ Coming(t, 0, r)
        /\ \A r : \A i \in 1..Len(s) : Coming(s, i, r) <=> Coming(t, i - 1, r)
    BY ComingMoves
  <1>3. Has(s, "PRIVATE_CHAT_HISTORY_RESPONSE") <=>
          h.type = "PRIVATE_CHAT_HISTORY_RESPONSE" \/ Has(t, "PRIVATE_CHAT_HISTORY_RESPONSE")
    BY TailHas
  <1> HIDE DEF t, h
  <1>4. CASE LastAsked(q, p)
    BY <1>4 DEF Converges
  <1>5. CASE ~Has(q, "PRIVATE_CHAT_HISTORY_REQUEST") /\ LastSettles(q, s, table, p)
    <2>1. PICK i \in 1..Len(s) :
            /\ s[i].type = "PRIVATE_CHAT_HISTORY_RESPONSE"
            /\ \A j \in 1..Len(s) : j > i => s[j].type # "PRIVATE_CHAT_HISTORY_RESPONSE"
            /\ Settled(DOMAIN s[i].rows, i, q, s, table, p)
      BY <1>5 DEF LastSettles
    <2>2. Settled(DOMAIN s[i].rows, i - 1, q, t, table, p)
      BY <1>2, <2>1 DEF Settled
    <2>3. CASE i = 1
      <3>1. \A j \in 1..Len(t) : j + 1 > 1
        OBVIOUS
      <3>2. ~Has(t, "PRIVATE_CHAT_HISTORY_RESPONSE")
        BY <1>1, <2>1, <2>3, <3>1 DEF Has
      <3>3. bubbles2 = DOMAIN s[i].rows
        BY <1>1, <2>1, <2>3 DEF h
      <3>4. Settled(bubbles2, 0, q, t, table, p)
        <4>1. i - 1 = 0
          BY <2>3
        <4>2. QED
          BY <2>2, <3>3, <4>1
      <3>5. QED
        BY <1>5, <3>2, <3>4 DEF Converges, t
    <2>4. CASE i # 1
      <3>1. i - 1 \in 1..Len(t) /\ t[i - 1] = s[i]
        BY <1>1, <2>4
      <3>2. \A j \in 1..Len(t) : j > i - 1 => t[j].type # "PRIVATE_CHAT_HISTORY_RESPONSE"
        <4>1. TAKE j \in 1..Len(t)
        <4>2. HAVE j > i - 1
        <4>3. j + 1 > i /\ j + 1 \in 1..Len(s) /\ t[j] = s[j + 1]
          BY <1>1, <4>2
        <4>4. QED
          BY <2>1, <4>3
      <3>3. t[i - 1].type = "PRIVATE_CHAT_HISTORY_RESPONSE" /\ Settled(DOMAIN t[i - 1].rows, i - 1, q, t, table, p)
        BY <2>1, <2>2, <3>1
      <3>4. LastSettles(q, t, table, p)
        <4> DEFINE k == i - 1
        <4>1. /\ k \in 1..Len(t) /\ t[k].type = "PRIVATE_CHAT_HISTORY_RESPONSE"
              /\ \A j \in 1..Len(t) : j > k => t[j].type # "PRIVATE_CHAT_HISTORY_RESPONSE"
              /\ Settled(DOMAIN t[k].rows, k, q, t, table, p)
          BY <3>1, <3>2, <3>3
        <4> HIDE DEF k
        <4>2. QED
          BY <4>1 DEF LastSettles
      <3>5. QED
        BY <1>5, <3>4 DEF Converges, t
    <2>5. QED
      BY <2>3, <2>4
  <1>6. CASE /\ ~Has(q, "PRIVATE_CHAT_HISTORY_REQUEST") /\ ~Has(s, "PRIVATE_CHAT_HISTORY_RESPONSE")
             /\ Settled(bubbles, 0, q, s, table, p)
    <2>1. ~Has(t, "PRIVATE_CHAT_HISTORY_RESPONSE") /\ h.type # "PRIVATE_CHAT_HISTORY_RESPONSE"
      BY <1>3, <1>6
    <2>2. CASE h.type = "CHAT_DIRECT"
      <3>1. bubbles2 = bubbles \cup (Brings(h) \cap Between(p))
        BY <2>2 DEF h
      <3>2. Settled(bubbles2, 0, q, t, table, p)
        BY <1>2, <1>6, <2>2, <3>1 DEF Settled
      <3>3. QED
        BY <1>6, <2>1, <3>2 DEF Converges, t
    <2>3. CASE h.type # "CHAT_DIRECT"
      <3>1. bubbles2 = bubbles
        BY <2>1, <2>3 DEF h
      <3>2. Settled(bubbles2, 0, q, t, table, p)
        BY <1>2, <1>6, <2>3, <3>1 DEF Settled
      <3>3. QED
        BY <1>6, <2>1, <3>2 DEF Converges, t
    <2>4. QED
      BY <2>2, <2>3
  <1>7. QED
    BY <1>4, <1>5, <1>6 DEF Converges

(* The user writes while no list is under way.                             *)
LEMMA ConvergesWithMine ==
  ASSUME NEW q \in Seq(Request), NEW s \in Seq(Event), NEW m \in Request,
         NEW bubbles, NEW table, NEW p \in Peer, Converges(q, s, bubbles, table, p),
         ~Has(q, "PRIVATE_CHAT_HISTORY_REQUEST"), ~Has(s, "PRIVATE_CHAT_HISTORY_RESPONSE"),
         m.type = "CHAT_DIRECT", m.peer = p
  PROVE  Converges(Append(q, m), s, bubbles \cup {Row(Me, p, m.n)}, table, p)
  <1>1. ~LastAsked(q, p) /\ ~LastSettles(q, s, table, p)
    BY DEF LastAsked, LastSettles, Has
  <1>2. Settled(bubbles, 0, q, s, table, p)
    BY <1>1 DEF Converges
  <1>3. ~Has(Append(q, m), "PRIVATE_CHAT_HISTORY_REQUEST")
    BY MoreHas
  <1>4. \A r : Going(Append(q, m), r) <=> Going(q, r) \/ r = Row(Me, p, m.n)
    BY GoingMoves
  <1>5. Row(Me, p, m.n) \in Between(p)
    <2>1. Row(Me, p, m.n) \in RowType
      BY Fields, RowTypes
    <2>2. QED
      BY <2>1, RowTypes DEF Between
  <1>6. Settled(bubbles \cup {Row(Me, p, m.n)}, 0, Append(q, m), s, table, p)
    BY <1>2, <1>4, <1>5 DEF Settled
  <1>7. QED
    BY <1>3, <1>6 DEF Converges

(* A list is asked for.                                                    *)
LEMMA ConvergesWithRequest ==
  ASSUME NEW q \in Seq(Request), NEW s, NEW m \in Request, NEW bubbles, NEW table, NEW p,
         m.type = "PRIVATE_CHAT_HISTORY_REQUEST", m.peer = p
  PROVE  Converges(Append(q, m), s, bubbles, table, p)
  <1> DEFINE q2 == Append(q, m)
  <1>1. q2[Len(q) + 1] = m /\ Len(q) + 1 \in 1..Len(q2) /\ Len(q2) = Len(q) + 1
    BY MoreOfQueue
  <1> HIDE DEF q2
  <1>2. \A j \in 1..Len(q2) : ~(j > Len(q) + 1)
    BY <1>1
  <1>3. LastAsked(q2, p)
    BY <1>1, <1>2 DEF LastAsked
  <1>4. QED
    BY <1>3 DEF Converges, q2


----------------------------------------------------------------------------
(* The window, step by step.                                               *)

(* A connection that lives has lived before the step.                      *)
LEMMA AliveBefore == [Next]_vars /\ Alive' => Alive
  <1> SUFFICES ASSUME [Next]_vars, Alive' PROVE Alive
    OBVIOUS
  <1>1. CASE Click
    BY <1>1 DEF Click, onEnter, onExit, TypeMessage, onSendPrivateChat, SendPrivateChatFails, ChatIsBusy,
                DiesOfSend, SendKills, CloseWindow, stop, disconnect, SelectFriend, Requests, Sends, SendFails,
                network, Alive
  <1>2. CASE consumeNetworkEvents
    BY <1>2 DEF consumeNetworkEvents, handleMessage, CallsGoneScreen, Pops, Alive
  <1>3. CASE Server \/ Peers \/ Network
    BY <1>3 DEF Server, Handle, handleChatDirect, handlePrivateChatHistoryRequest, handleFriendListRequest,
                Answer, Peers, PeerWrites, Network, closeConnection, ServerCrash, Alive
  <1>4. CASE Receiver \/ Joins
    BY <1>4 DEF Receiver, Receive, receiveMessage, isConnected, receiveEOF, Joins, Joined, Alive
  <1>5. CASE (\E n \in Mine : Timer(n)) \/ UNCHANGED vars
    BY <1>5 DEF Timer, vars, network, Alive
  <1>6. QED
    BY <1>1, <1>2, <1>3, <1>4, <1>5 DEF Next

(* While the socket is open the receiver is in recv or has ended.          *)
LEMMA ReceiverStep ==
  ASSUME connected => receiver # "returns", [Next]_vars
  PROVE  connected' => receiver' # "returns"
  <1>1. CASE Click
    BY <1>1 DEF Click, onEnter, onExit, TypeMessage, onSendPrivateChat, SendPrivateChatFails, ChatIsBusy,
                DiesOfSend, SendKills, CloseWindow, stop, disconnect, SelectFriend, Requests, Sends, SendFails,
                network
  <1>2. CASE consumeNetworkEvents
    BY <1>2 DEF consumeNetworkEvents, handleMessage, CallsGoneScreen
  <1>3. CASE Server \/ Peers \/ Network
    BY <1>3 DEF Server, Handle, handleChatDirect, handlePrivateChatHistoryRequest, handleFriendListRequest,
                Answer, Peers, PeerWrites, Network, closeConnection, ServerCrash
  <1>4. CASE Receiver \/ Joins
    BY <1>4 DEF Receiver, Receive, receiveMessage, isConnected, receiveEOF, pushDisconnect, Joins, Joined
  <1>5. CASE (\E n \in Mine : Timer(n)) \/ UNCHANGED vars
    BY <1>5 DEF Timer, vars, network
  <1>6. QED
    BY <1>1, <1>2, <1>3, <1>4, <1>5 DEF Next

(* While the screen is there, so are its callbacks.                        *)
LEMMA CallbacksStep ==
  ASSUME TypeOK, screen = "Chat" => callbacks = "set", [Next]_vars
  PROVE  screen' = "Chat" => callbacks' = "set"
  <1>1. CASE Click
    BY <1>1 DEF Click, onEnter, onExit, TypeMessage, ShowBubbles, DiesOfSend, CloseWindow, SelectFriend, Forgets
  <1>2. CASE consumeNetworkEvents
    BY <1>2, HandledEvent DEF consumeNetworkEvents, CallsGoneScreen, Forgets
  <1>3. CASE Server \/ Peers \/ Network
    BY <1>3 DEF Server, Peers, Network, Blots, ShowBubbles
  <1>4. CASE Receiver \/ Joins \/ (\E n \in Mine : Timer(n)) \/ UNCHANGED vars
    BY <1>4 DEF Receiver, Joins, Stays, Timer, vars, window
  <1>5. QED
    BY <1>1, <1>2, <1>3, <1>4 DEF Next

(* A request that is sent is behind the others.                            *)
LEMMA SendsAlive ==
  ASSUME Alive, Alive', NEW m, Requests(m)
  PROVE  toServer' = Append(toServer, m) /\ Stream' = Stream
  BY DEF Alive, Requests, Sends, SendFails, disconnect, Stream

(* HistoryUnderWay looks at both directions.                               *)
LEMMA NoHistory ==
  ASSUME TypeOK, ~HistoryUnderWay
  PROVE  ~Has(toServer, "PRIVATE_CHAT_HISTORY_REQUEST") /\ ~Has(Stream, "PRIVATE_CHAT_HISTORY_RESPONSE")
  <1>1. toMe \in Seq(Event) /\ events \in Seq(Event) /\ toServer \in Seq(Request)
    BY DEF TypeOK
  <1>2. /\ \A i \in 1..Len(toServer) : toServer[i] \in Range(toServer)
        /\ \A i \in 1..Len(toMe) : toMe[i] \in Range(toMe)
        /\ \A i \in 1..Len(events) : events[i] \in Range(events)
    BY <1>1 DEF Range
  <1>3. Len(Stream) = Len(events) + Len(toMe) /\ Len(events) \in Nat /\ Len(toMe) \in Nat
        /\ \A i \in 1..Len(Stream) : Stream[i] = IF i <= Len(events) THEN events[i] ELSE toMe[i - Len(events)]
    BY <1>1, ConcatProperties, LenProperties DEF Stream
  <1>4. \A i \in 1..Len(Stream) : Stream[i] \in Range(events) \cup Range(toMe)
    <2>1. ASSUME NEW i \in 1..Len(Stream), i <= Len(events) PROVE i \in 1..Len(events)
      BY <1>3, <2>1
    <2>2. ASSUME NEW i \in 1..Len(Stream), ~(i <= Len(events)) PROVE i - Len(events) \in 1..Len(toMe)
      BY <1>3, <2>2
    <2>3. QED
      BY <1>2, <1>3, <2>1, <2>2
  <1>5. QED
    BY <1>2, <1>4 DEF Has, HistoryUnderWay, IsHistory

(* Entering the screen clears the window.                                  *)
LEMMA EnterFollows ==
  ASSUME TypeOK, TypeOK', Alive, Alive', Follows, onEnter \/ onExit
  PROVE  Follows'
  <1>1. /\ ~Shown' /\ chatBubbles' = EmptyBag /\ UNCHANGED <<privateChats, theirs, typed>> /\ Stream' = Stream
        /\ \/ toServer' = toServer
           \/ toServer' = Append(toServer, [type |-> "FRIEND_LIST_REQUEST"])
    BY SendsAlive DEF onEnter, onExit, Shown, service, network, Stream
  <1>2. typed' \in Nat /\ typed' >= typed /\ theirs' \in Nat /\ Numbered
    BY <1>1 DEF TypeOK, Follows
  <1>3. StreamOrder(Stream)'
    BY <1>1, <1>2, BagOperators, OrderStays
  <1>4. RequestOrder(toServer)'
    <2>1. CASE toServer' = toServer
      BY <1>1, <1>2, <2>1, RequestsStay
    <2>2. CASE toServer' = Append(toServer, [type |-> "FRIEND_LIST_REQUEST"])
      <3> DEFINE m == [type |-> "FRIEND_LIST_REQUEST"]
      <3>1. m \in Request /\ m.type # "CHAT_DIRECT"
        BY RequestTypes
      <3> HIDE DEF m
      <3>2. toServer' = Append(toServer, m)
        BY <2>2 DEF m
      <3>3. QED
        BY <1>1, <1>2, <3>1, <3>2, RequestsOfMore
    <2>3. QED
      BY <1>1, <2>1, <2>2
  <1>5. Numbers(privateChats', typed', theirs') /\ Numbers(chatBubbles', typed', theirs')
    BY <1>1, <1>2, NumbersOfNothing DEF Numbered
  <1>6. QED
    BY <1>1, <1>3, <1>4, <1>5 DEF Follows, Numbered

(* Selecting a peer asks for the history, which the window is to become.   *)
LEMMA SelectFollows ==
  ASSUME TypeOK, TypeOK', Alive, Alive', Follows, NEW p \in Peer, SelectFriend(p)
  PROVE  Follows'
  <1> DEFINE m == [type |-> "PRIVATE_CHAT_HISTORY_REQUEST", peer |-> p]
  <1>1. /\ UNCHANGED <<privateChats, theirs, typed, chatBubbles>> /\ Stream' = Stream
        /\ toServer' = Append(toServer, m) /\ selectedFriendId' = p
    BY SendsAlive DEF SelectFriend, service
  <1>2. typed' \in Nat /\ typed' >= typed /\ theirs' \in Nat /\ Numbered /\ toServer \in Seq(Request)
    BY <1>1 DEF TypeOK, Follows
  <1>3. m \in Request /\ m.type = "PRIVATE_CHAT_HISTORY_REQUEST" /\ m.peer = p
    BY RequestTypes
  <1> HIDE DEF m
  <1>4. StreamOrder(Stream)'
    BY <1>1, <1>2, OrderStays
  <1>5. RequestOrder(toServer)'
    BY <1>1, <1>2, <1>3, RequestsOfMore
  <1>6. Numbers(privateChats', typed', theirs') /\ Numbers(chatBubbles', typed', theirs')
    BY <1>1, <1>2 DEF Numbered
  <1>7. Converges(toServer', Stream', DOMAIN chatBubbles', DOMAIN privateChats', selectedFriendId')
    BY <1>1, <1>2, <1>3, ConvergesWithRequest
  <1>8. QED
    BY <1>4, <1>5, <1>6, <1>7 DEF Follows, Numbered

(* The message typed is in the window and on its way to the table.         *)
LEMMA TypeFollows ==
  ASSUME TypeOK, TypeOK', Alive, Alive', Follows, TypeMessage
  PROVE  Follows'
  <1> DEFINE n == typed + 1
             p == selectedFriendId
             m == [type |-> "CHAT_DIRECT", peer |-> p, n |-> n]
             r == Row(Me, p, n)
  <1>1. /\ p \in Peer /\ n \in Nat /\ typed' = n /\ n > typed /\ theirs \in Nat /\ typed \in Nat
        /\ UNCHANGED <<privateChats, theirs, selectedFriendId, screen>> /\ Stream' = Stream
        /\ chatBubbles' = IF blot' THEN EmptyBag ELSE BagAdd(chatBubbles, r)
        /\ toServer \in Seq(Request) /\ Stream \in Seq(Event) /\ chatBubbles \in RowBag
    BY StreamMoves DEF TypeMessage, TypeOK, ShowBubbles, service, Stream
  <1>2. Numbered
    BY DEF Follows
  <1>3. m \in Request /\ m.type = "CHAT_DIRECT" /\ m.peer = p /\ m.n = n
    BY <1>1, RequestTypes
  <1>4. r \in RowType /\ r.from = Me /\ r.to = p /\ r.n = n /\ p # Me
    BY <1>1, RowTypes, PeerAssumption
  <1>5. r = Row(Me, p, m.n) /\ typed' = typed + 1 /\ m.n = typed + 1
    BY <1>1
  <1> HIDE DEF m, r, n
  <1>6. \A b : Numbers(b, typed, theirs) => Numbers(b, typed', theirs')
    BY <1>1, NumbersStay
  <1>7. Numbers(chatBubbles', typed', theirs')
    <2>1. CASE blot'
      BY <1>1, <2>1, NumbersOfNothing
    <2>2. CASE ~blot'
      <3>1. \A x \in DOMAIN chatBubbles : x.from = Me => x.n \in Nat /\ x.n <= typed
        BY <1>2 DEF Numbered, Numbers, RowType
      <3>2. r \notin DOMAIN chatBubbles
        BY <1>1, <1>4, <3>1
      <3>3. r.from = Me => r.n <= typed'
        BY <1>1, <1>4
      <3>4. r.to = Me => r.n <= theirs'
        BY <1>4
      <3>5. Numbers(chatBubbles, typed', theirs')
        BY <1>2, <1>6 DEF Numbered
      <3>6. QED
        BY <1>1, <1>4, <2>2, <3>2, <3>3, <3>4, <3>5, NumbersOfMore
    <2>3. QED
      BY <2>1, <2>2
  <1>8. \A x \in DOMAIN chatBubbles' : x.to = Me => x \in DOMAIN chatBubbles
    <2>1. DOMAIN chatBubbles' = {} \/ DOMAIN chatBubbles' = DOMAIN chatBubbles \cup {r}
      BY <1>1, <1>4, BagOperators
    <2>2. QED
      BY <1>4, <2>1
  <1>9. StreamOrder(Stream)' /\ Numbers(privateChats', typed', theirs')
    BY <1>1, <1>2, <1>6, <1>8, OrderStays DEF Numbered
  <1>10. CASE onSendPrivateChat
    <2>1. toServer' = Append(toServer, m) /\ (~blot' => ~blot /\ ~HistoryUnderWay)
      BY <1>10 DEF onSendPrivateChat, Sends, Alive, m, n
    <2>2. RequestOrder(toServer)'
      BY <1>1, <1>2, <1>3, <1>5, <2>1, RequestsOfMore
    <2>3. ASSUME Shown'
          PROVE  Converges(toServer', Stream', DOMAIN chatBubbles', DOMAIN privateChats', selectedFriendId')
      <3>1. ~blot' /\ Shown /\ ~HistoryUnderWay
        BY <1>1, <2>1, <2>3 DEF Shown
      <3>2. ~Has(toServer, "PRIVATE_CHAT_HISTORY_REQUEST") /\ ~Has(Stream, "PRIVATE_CHAT_HISTORY_RESPONSE")
        BY <3>1, NoHistory
      <3>3. Converges(toServer, Stream, DOMAIN chatBubbles, DOMAIN privateChats, p)
        BY <3>1 DEF Follows
      <3>4. Converges(Append(toServer, m), Stream, DOMAIN chatBubbles \cup {Row(Me, p, m.n)}, DOMAIN privateChats, p)
        <4>1. toServer \in Seq(Request) /\ Stream \in Seq(Event) /\ p \in Peer
          BY <1>1
        <4> HIDE DEF p
        <4>2. QED
          BY <1>3, <3>2, <3>3, <4>1, ConvergesWithMine
      <3>5. DOMAIN chatBubbles' = DOMAIN chatBubbles \cup {Row(Me, p, m.n)}
        <4>1. chatBubbles' = BagAdd(chatBubbles, r) /\ chatBubbles \in RowBag /\ r \in RowType
          BY <1>1, <1>4, <3>1
        <4>2. DOMAIN chatBubbles' = DOMAIN chatBubbles \cup {r}
          BY <4>1, BagOperators
        <4>3. QED
          BY <1>5, <4>2
      <3>6. QED
        BY <1>1, <2>1, <3>4, <3>5
    <2>4. QED
      BY <1>7, <1>9, <2>2, <2>3 DEF Follows, Numbered
  <1>11. CASE SendPrivateChatFails \/ ChatIsBusy
    <2>1. toServer' = toServer /\ blot'
      BY <1>11 DEF SendPrivateChatFails, SendFails, ChatIsBusy
    <2>2. RequestOrder(toServer)'
      BY <1>1, <1>2, <2>1, RequestsStay
    <2>3. QED
      BY <1>7, <1>9, <2>1, <2>2 DEF Follows, Numbered, Shown
  <1>12. QED
    BY <1>10, <1>11 DEF TypeMessage

(* What an event brings to the window is what it takes off the stream.     *)
LEMMA EventFollows ==
  ASSUME TypeOK, TypeOK', Alive, Alive', Follows, screen = "Chat" => callbacks = "set",
         NEW e, handleMessage(e)
  PROVE  Follows'
  <1> DEFINE p == selectedFriendId
  <1>1. /\ e \in Event /\ events # <<>> /\ e = Head(events) /\ events' = Tail(events) /\ toMe' = toMe
        /\ UNCHANGED <<toServer, privateChats, theirs, typed, screen, selectedFriendId, blot>>
    BY EventTaken, HandledEvent DEF service
  <1>2. Stream \in Seq(Event) /\ Stream # <<>> /\ e = Head(Stream) /\ Stream' = Tail(Stream)
    BY <1>1, StreamMoves
  <1>3. /\ Numbered /\ typed \in Nat /\ typed' \in Nat /\ theirs \in Nat /\ theirs' \in Nat
        /\ typed' >= typed /\ theirs' >= theirs /\ chatBubbles \in RowBag /\ toServer \in Seq(Request)
        /\ p \in Peer \cup {NoPeer}
    BY <1>1 DEF TypeOK, Follows
  <1>4. /\ e.type = "CHAT_DIRECT" => /\ e.from \in Peer /\ e.n \in Nat /\ e.n <= theirs
                                     /\ Brings(e) = {Row(e.from, Me, e.n)}
        /\ e.type = "PRIVATE_CHAT_HISTORY_RESPONSE" =>
             Numbers(e.rows, typed, theirs) /\ Brings(e) = DOMAIN e.rows
        /\ Older(DOMAIN chatBubbles, e)
    <2>1. 1 \in 1..Len(Stream) /\ Stream[1] = e
      BY <1>2, TailOfQueue
    <2>2. QED
      BY <1>3, <2>1 DEF Numbered, StreamOrder, Brings
  <1>5. /\ e.type = "CHAT_DIRECT" =>
             chatBubbles' = IF blot THEN EmptyBag
                            ELSE IF callbacks = "set" /\ e.from = p THEN BagAdd(chatBubbles, Row(e.from, Me, e.n))
                            ELSE chatBubbles
        /\ e.type = "PRIVATE_CHAT_HISTORY_RESPONSE" =>
             chatBubbles' = IF blot THEN EmptyBag ELSE IF callbacks = "set" THEN e.rows ELSE chatBubbles
        /\ e.type \notin {"CHAT_DIRECT", "PRIVATE_CHAT_HISTORY_RESPONSE"} => chatBubbles' = chatBubbles
    BY <1>1, HandledEvent DEF onServerACK, onServerDeliverMessage, Shows, ShowBubbles, window
  <1>6. DOMAIN chatBubbles' \subseteq DOMAIN chatBubbles \cup Brings(e)
    <2>1. CASE e.type = "CHAT_DIRECT"
      <3>1. Row(e.from, Me, e.n) \in RowType
        BY <1>4, <2>1, RowTypes
      <3>2. DOMAIN BagAdd(chatBubbles, Row(e.from, Me, e.n)) = DOMAIN chatBubbles \cup Brings(e)
        BY <1>3, <1>4, <2>1, <3>1, BagOperators
      <3>3. QED
        BY <1>5, <2>1, <3>2, BagOperators
    <2>2. CASE e.type # "CHAT_DIRECT"
      BY <1>4, <1>5, <2>2, BagOperators
    <2>3. QED
      BY <2>1, <2>2
  <1>7. Numbers(chatBubbles', typed', theirs')
    <2>1. Numbers(chatBubbles, typed', theirs')
      BY <1>3, NumbersStay DEF Numbered
    <2>2. CASE e.type = "CHAT_DIRECT" /\ chatBubbles' = BagAdd(chatBubbles, Row(e.from, Me, e.n))
      <3> DEFINE r == Row(e.from, Me, e.n)
      <3>1. r \in RowType /\ r.from = e.from /\ r.to = Me /\ r.n = e.n /\ e.from # Me
        BY <1>4, <2>2, RowTypes, PeerAssumption
      <3> HIDE DEF r
      <3>2. \A x \in DOMAIN chatBubbles : x.to = Me => x.n \in Nat /\ x.n < e.n
        BY <1>3, <1>4, <2>2 DEF Older, Numbered, Numbers, RowType
      <3>3. r \notin DOMAIN chatBubbles
        BY <1>4, <2>2, <3>1, <3>2
      <3>4. (r.from = Me => r.n <= typed') /\ (r.to = Me => r.n <= theirs')
        BY <1>1, <1>4, <2>2, <3>1
      <3>5. Numbers(BagAdd(chatBubbles, r), typed', theirs')
        BY <2>1, <3>1, <3>3, <3>4, NumbersOfMore
      <3>6. QED
        BY <2>2, <3>5 DEF r
    <2>3. CASE e.type = "PRIVATE_CHAT_HISTORY_RESPONSE" /\ chatBubbles' = e.rows
      BY <1>1, <1>4, <2>3
    <2>4. QED
      BY <1>5, <2>1, <2>2, <2>3, NumbersOfNothing
  <1>8. StreamOrder(Stream)'
    BY <1>1, <1>2, <1>3, <1>6, OrderOfTail
  <1>9. RequestOrder(toServer)'
    BY <1>1, <1>3, RequestsStay
  <1>10. Numbers(privateChats', typed', theirs')
    BY <1>1, <1>3 DEF Numbered
  <1>11. ASSUME Shown'
         PROVE  Converges(toServer', Stream', DOMAIN chatBubbles', DOMAIN privateChats', selectedFriendId')
    <2>1. Shown /\ ~blot /\ callbacks = "set" /\ p \in Peer
      BY <1>1, <1>3, <1>11 DEF Shown
    <2>2. Converges(toServer, Stream, DOMAIN chatBubbles, DOMAIN privateChats, p)
      BY <2>1 DEF Follows
    <2>3. e.type = "PRIVATE_CHAT_HISTORY_RESPONSE" => DOMAIN chatBubbles' = DOMAIN e.rows
      BY <1>5, <2>1
    <2>4. e.type = "CHAT_DIRECT" => DOMAIN chatBubbles' = DOMAIN chatBubbles \cup (Brings(e) \cap Between(p))
      <3>1. ASSUME e.type = "CHAT_DIRECT"
            PROVE  /\ Row(e.from, Me, e.n) \in RowType
                   /\ Row(e.from, Me, e.n) \in Between(p) <=> e.from = p
        <4>1. Row(e.from, Me, e.n) \in RowType /\ e.from # Me /\ p # Me
          BY <1>4, <2>1, <3>1, RowTypes, PeerAssumption
        <4>2. QED
          BY <4>1, RowTypes DEF Between
      <3>2. CASE e.type = "CHAT_DIRECT" /\ e.from = p
        <4> DEFINE r == Row(e.from, Me, e.n)
        <4>1. r \in RowType /\ r \in Between(p) /\ Brings(e) = {r}
          BY <1>4, <3>1, <3>2
        <4>2. chatBubbles' = BagAdd(chatBubbles, r)
          BY <1>5, <2>1, <3>2
        <4> HIDE DEF r
        <4>3. DOMAIN chatBubbles' = DOMAIN chatBubbles \cup {r}
          BY <1>3, <4>1, <4>2, BagOperators
        <4>4. QED
          BY <4>1, <4>3
      <3>3. CASE e.type = "CHAT_DIRECT" /\ e.from # p
        <4>1. chatBubbles' = chatBubbles /\ Brings(e) \cap Between(p) = {}
          BY <1>4, <1>5, <2>1, <3>1, <3>3
        <4>2. QED
          BY <4>1
      <3>4. QED
        BY <3>2, <3>3
    <2>5. e.type \notin {"CHAT_DIRECT", "PRIVATE_CHAT_HISTORY_RESPONSE"} => DOMAIN chatBubbles' = DOMAIN chatBubbles
      BY <1>5
    <2>6. Converges(toServer, Tail(Stream), DOMAIN chatBubbles', DOMAIN privateChats, p)
      BY <1>2, <1>3, <2>2, <2>3, <2>4, <2>5, ConvergesWithLess
    <2>7. QED
      BY <1>1, <1>2, <2>6
  <1>12. QED
    BY <1>7, <1>8, <1>9, <1>10, <1>11 DEF Follows, Numbered


(* What the server saves or lists was under way, and its answer is behind  *)
(* all others.                                                             *)
LEMMA ServerFollows ==
  ASSUME TypeOK, TypeOK', Alive, Alive', Follows, Server
  PROVE  Follows'
  <1> DEFINE h == Head(toServer)
             p == selectedFriendId
             r == Row(Me, h.peer, h.n)
  <1>1. /\ Handle /\ Blots(Loses(h)) /\ toServer # <<>> /\ toServer' = Tail(toServer) /\ h \in Request
        /\ Tail(toServer) \in Seq(Request) /\ UNCHANGED <<theirs, typed, events, screen, selectedFriendId>>
        /\ chatBubbles' = IF blot' THEN EmptyBag ELSE chatBubbles
        /\ ~blot' =>
             /\ ~blot
             /\ h.type = "CHAT_DIRECT" => privateChats' # privateChats
             /\ h.type = "PRIVATE_CHAT_HISTORY_REQUEST" /\ h.peer = p
                  => Last(toMe').rows = getPrivateChatHistory(p, Saved)
    BY HandleCases DEF Server, Blots, ShowBubbles, Loses, NotSaved, MissesRows
  <1>2. /\ Numbered /\ typed \in Nat /\ theirs \in Nat /\ theirs' \in Nat /\ theirs' >= theirs
        /\ chatBubbles \in RowBag /\ privateChats \in RowBag /\ toServer \in Seq(Request) /\ Stream \in Seq(Event)
    BY <1>1, StreamMoves DEF TypeOK, Follows
  <1>3. DOMAIN chatBubbles' \subseteq DOMAIN chatBubbles /\ Numbers(chatBubbles', typed', theirs')
    BY <1>1, <1>2, BagOperators, NumbersOfNothing DEF Numbered
  <1>4. h.type = "CHAT_DIRECT" =>
          /\ r \in RowType /\ r.from = Me /\ r.to = h.peer /\ r.n = h.n /\ h.peer \in Peer /\ h.peer # Me
          /\ h.n \in Nat /\ h.n <= typed /\ r \notin DOMAIN privateChats
    <2>1. SUFFICES ASSUME h.type = "CHAT_DIRECT"
                   PROVE  /\ r \in RowType /\ r.from = Me /\ r.to = h.peer /\ r.n = h.n
                          /\ h.peer \in Peer /\ h.peer # Me
                          /\ h.n \in Nat /\ h.n <= typed /\ r \notin DOMAIN privateChats
      OBVIOUS
    <2>2. /\ h.peer \in Peer /\ h.n \in Nat /\ h.peer # Me
          /\ r \in RowType /\ r.from = Me /\ r.to = h.peer /\ r.n = h.n
      BY <1>1, <2>1, Fields, RowTypes, PeerAssumption
    <2>3. h = toServer[1] /\ 1 \in 1..Len(toServer)
      BY <1>1, <1>2, TailOfQueue
    <2>4. h.n <= typed /\ \A x \in DOMAIN privateChats : x.from = Me => x.n < h.n
      BY <1>2, <2>1, <2>3 DEF Numbered, RequestOrder
    <2>5. QED
      BY <2>2, <2>4
  <1>5. \/ /\ h.type = "CHAT_DIRECT" /\ save(r)
           /\ toMe' = Append(toMe, [type |-> "CHAT_DIRECT_ACK", n |-> h.n])
        \/ /\ h.type = "PRIVATE_CHAT_HISTORY_REQUEST" /\ UNCHANGED privateChats
           /\ \E found \in SUBSET Saved :
                toMe' = Append(toMe, [type |-> "PRIVATE_CHAT_HISTORY_RESPONSE",
                                      rows |-> getPrivateChatHistory(h.peer, found)])
        \/ /\ h.type = "FRIEND_LIST_REQUEST" /\ UNCHANGED privateChats
           /\ toMe' = Append(toMe, [type |-> "FRIEND_LIST_RESPONSE"])
    BY <1>1, HandleCases
  <1> HIDE DEF r
  <1>6. /\ DOMAIN privateChats' \subseteq DOMAIN privateChats \cup (IF h.type = "CHAT_DIRECT" THEN {r} ELSE {})
        /\ Numbers(privateChats', typed', theirs')
    <2>1. CASE UNCHANGED privateChats
      BY <1>1, <1>2, <2>1 DEF Numbered
    <2>2. CASE h.type = "CHAT_DIRECT" /\ privateChats' = BagAdd(privateChats, r)
      <3>1. Numbers(privateChats, typed', theirs')
        BY <1>1, <1>2 DEF Numbered
      <3>2. (r.from = Me => r.n <= typed') /\ (r.to = Me => r.n <= theirs')
        BY <1>1, <1>4, <2>2
      <3>3. Numbers(BagAdd(privateChats, r), typed', theirs')
        BY <1>4, <2>2, <3>1, <3>2, NumbersOfMore
      <3>4. DOMAIN privateChats' = DOMAIN privateChats \cup {r}
        BY <1>2, <1>4, <2>2, BagOperators
      <3>5. QED
        BY <2>2, <3>3, <3>4
    <2>3. QED
      BY <1>5, <2>1, <2>2 DEF save
  <1>7. RequestOrder(toServer)'
    <2>1. \A x \in DOMAIN privateChats' :
            x \in DOMAIN privateChats \/ (h.type = "CHAT_DIRECT" /\ x = Row(Me, h.peer, h.n))
      BY <1>6 DEF r
    <2>2. QED
      BY <1>1, <1>2, <2>1, RequestsOfTail
  <1>8. ASSUME NEW m \in Event, toMe' = Append(toMe, m), m.type # "CHAT_DIRECT",
               m.type = "PRIVATE_CHAT_HISTORY_RESPONSE" => Numbers(m.rows, typed, theirs)
        PROVE  StreamOrder(Stream)' /\ Stream' = Append(Stream, m)
    <2>1. Stream' = Append(Stream, m)
      BY <1>1, <1>8, StreamMoves
    <2>2. QED
      BY <1>1, <1>2, <1>3, <1>8, <2>1, OrderOfMore
  <1>9. ASSUME Shown'
        PROVE  /\ Shown /\ ~blot'
               /\ Converges(toServer, Stream, DOMAIN chatBubbles, DOMAIN privateChats, p)
               /\ DOMAIN chatBubbles' = DOMAIN chatBubbles /\ selectedFriendId' = p
    BY <1>1, <1>9 DEF Shown, Follows
  <1>10. ASSUME NEW m \in Event, toMe' = Append(toMe, m),
                m.type \notin {"CHAT_DIRECT", "PRIVATE_CHAT_HISTORY_RESPONSE"},
                h.type # "PRIVATE_CHAT_HISTORY_REQUEST",
                ~blot' => \A x \in Between(p) : x \in DOMAIN privateChats' \/ Going(Tail(toServer), x) <=>
                            x \in DOMAIN privateChats \/ Going(toServer, x)
         PROVE  Follows'
    <2>1. StreamOrder(Stream)' /\ Stream' = Append(Stream, m)
      BY <1>8, <1>10
    <2>2. ASSUME Shown'
          PROVE  Converges(toServer', Stream', DOMAIN chatBubbles', DOMAIN privateChats', selectedFriendId')
      <3>1. Converges(Tail(toServer), Append(Stream, m), DOMAIN chatBubbles, DOMAIN privateChats', p)
        BY <1>1, <1>2, <1>9, <1>10, <2>2, ConvergesWithMore
      <3>2. QED
        BY <1>1, <1>9, <2>1, <2>2, <3>1
    <2>3. QED
      BY <1>3, <1>6, <1>7, <2>1, <2>2 DEF Follows, Numbered
  <1>11. \A x : Going(toServer, x) <=> (h.type = "CHAT_DIRECT" /\ x = r) \/ Going(Tail(toServer), x)
    BY <1>1, <1>2, GoingMoves DEF r
  <1>12. CASE /\ h.type = "CHAT_DIRECT" /\ save(r)
              /\ toMe' = Append(toMe, [type |-> "CHAT_DIRECT_ACK", n |-> h.n])
    <2> DEFINE m == [type |-> "CHAT_DIRECT_ACK", n |-> h.n]
    <2>1. m \in Event /\ m.type \notin {"CHAT_DIRECT", "PRIVATE_CHAT_HISTORY_RESPONSE"}
      BY <1>4, <1>12, EventTypes
    <2>2. ~blot' => DOMAIN privateChats' = DOMAIN privateChats \cup {r}
      BY <1>1, <1>2, <1>4, <1>12, BagOperators DEF save
    <2>3. ~blot' => \A x \in Between(p) : x \in DOMAIN privateChats' \/ Going(Tail(toServer), x) <=>
                      x \in DOMAIN privateChats \/ Going(toServer, x)
      BY <1>11, <1>12, <2>2
    <2>4. toMe' = Append(toMe, m)
      BY <1>12
    <2> HIDE DEF m
    <2>5. QED
      BY <1>10, <1>12, <2>1, <2>3, <2>4
  <1>13. CASE /\ h.type = "FRIEND_LIST_REQUEST" /\ UNCHANGED privateChats
              /\ toMe' = Append(toMe, [type |-> "FRIEND_LIST_RESPONSE"])
    <2> DEFINE m == [type |-> "FRIEND_LIST_RESPONSE"]
    <2>1. m \in Event /\ m.type \notin {"CHAT_DIRECT", "PRIVATE_CHAT_HISTORY_RESPONSE"}
      BY EventTypes
    <2>2. \A x \in Between(p) : x \in DOMAIN privateChats' \/ Going(Tail(toServer), x) <=>
            x \in DOMAIN privateChats \/ Going(toServer, x)
      BY <1>11, <1>13
    <2>3. toMe' = Append(toMe, m)
      BY <1>13
    <2> HIDE DEF m
    <2>4. QED
      BY <1>10, <1>13, <2>1, <2>2, <2>3
  <1>14. ASSUME h.type = "PRIVATE_CHAT_HISTORY_REQUEST", UNCHANGED privateChats,
                NEW found \in SUBSET Saved,
                toMe' = Append(toMe, [type |-> "PRIVATE_CHAT_HISTORY_RESPONSE",
                                      rows |-> getPrivateChatHistory(h.peer, found)])
         PROVE  Follows'
    <2> DEFINE m == [type |-> "PRIVATE_CHAT_HISTORY_RESPONSE",
                     rows |-> getPrivateChatHistory(h.peer, found)]
    <2>1. h.peer \in Peer
      BY <1>1, <1>14, Fields
    <2>2. /\ getPrivateChatHistory(h.peer, found) \in RowBag
          /\ Numbers(getPrivateChatHistory(h.peer, found), typed, theirs)
      BY <1>2, <2>1, HistoryIsRows, NumbersOfHistory DEF Numbered
    <2>3. /\ m \in Event /\ m.type = "PRIVATE_CHAT_HISTORY_RESPONSE"
          /\ Numbers(m.rows, typed, theirs)
      BY <2>2, EventTypes
    <2>4. toMe' = Append(toMe, m)
      BY <1>14
    <2> HIDE DEF m
    <2>a. Last(toMe') = m
      <3>1. toMe \in Seq(Event)
        BY DEF TypeOK
      <3>2. QED
        BY <2>3, <2>4, <3>1, MoreOfQueue DEF Last
    <2>b. ~blot' /\ h.peer = p => DOMAIN m.rows = DOMAIN privateChats \cap Between(p)
      <3>1. ASSUME h.peer = p
            PROVE  DOMAIN getPrivateChatHistory(p, Saved) = DOMAIN privateChats \cap Between(p)
        BY <1>2, <2>1, <3>1, HistoryIsRows DEF Saved, BagToSet
      <3>2. QED
        BY <1>1, <1>14, <2>a, <3>1
    <2>5. StreamOrder(Stream)' /\ Stream' = Append(Stream, m)
      BY <1>8, <2>3, <2>4
    <2>6. ASSUME Shown'
          PROVE  Converges(toServer', Stream', DOMAIN chatBubbles', DOMAIN privateChats', selectedFriendId')
      <3>1. Converges(Tail(toServer), Append(Stream, m), DOMAIN chatBubbles, DOMAIN privateChats, p)
        BY <1>1, <1>2, <1>9, <1>14, <2>3, <2>6, <2>b, ConvergesWithList
      <3>2. QED
        BY <1>1, <1>9, <1>14, <2>5, <2>6, <3>1
    <2>7. QED
      BY <1>3, <1>6, <1>7, <2>5, <2>6 DEF Follows, Numbered
  <1>15. QED
    BY <1>5, <1>12, <1>13, <1>14

(* A message of a peer is in the table, and in the stream.                 *)
LEMMA PeersFollow ==
  ASSUME TypeOK, TypeOK', Alive, Alive', Follows, Peers
  PROVE  Follows'
  <1>1. PICK w \in Writer : PeerWrites(w)
    BY DEF Peers
  <1> DEFINE p == selectedFriendId
             n == theirs + 1
             m == [type |-> "CHAT_DIRECT", from |-> w, n |-> n]
             r == Row(w, Me, n)
  <1>2. /\ UNCHANGED <<toServer, typed, events, screen, selectedFriendId>> /\ theirs' = n
        /\ toMe' = Append(toMe, m) /\ save(r)
        /\ chatBubbles' = IF blot' THEN EmptyBag ELSE chatBubbles
        /\ (~blot' => ~blot /\ privateChats' # privateChats)
    BY <1>1 DEF Peers, PeerWrites, Blots, NotSaved, ShowBubbles
  <1>3. /\ Numbered /\ typed \in Nat /\ theirs \in Nat /\ n \in Nat /\ theirs' \in Nat /\ theirs' >= theirs
        /\ typed' \in Nat /\ typed' >= typed /\ n > theirs
        /\ chatBubbles \in RowBag /\ privateChats \in RowBag /\ toServer \in Seq(Request) /\ Stream \in Seq(Event)
    BY <1>2, StreamMoves DEF TypeOK, Follows
  <1>4. w \in Peer /\ w # Me
    BY PeerAssumption
  <1>5. m \in Event /\ m.type = "CHAT_DIRECT" /\ m.n = n /\ m.from = w /\ Brings(m) = {r}
    BY <1>3, <1>4, EventTypes DEF Brings
  <1>6. r \in RowType /\ r.from = w /\ r.to = Me /\ r.n = n
    BY <1>3, <1>4, RowTypes
  <1>7. theirs' = theirs + 1 /\ m.n = theirs + 1
    BY <1>2, <1>5
  <1> HIDE DEF m, r, n
  <1>8. \A b : Numbers(b, typed, theirs) => Numbers(b, typed', theirs')
    BY <1>3, NumbersStay
  <1>9. DOMAIN chatBubbles' \subseteq DOMAIN chatBubbles /\ Numbers(chatBubbles', typed', theirs')
    BY <1>2, <1>3, <1>8, BagOperators, NumbersOfNothing DEF Numbered
  <1>10. DOMAIN privateChats' \subseteq DOMAIN privateChats \cup {r} /\ Numbers(privateChats', typed', theirs')
    <2>1. CASE UNCHANGED privateChats
      BY <1>3, <1>8, <2>1 DEF Numbered
    <2>2. CASE privateChats' = BagAdd(privateChats, r)
      <3>1. Numbers(privateChats, typed', theirs')
        BY <1>3, <1>8 DEF Numbered
      <3>2. \A x \in DOMAIN privateChats : x.to = Me => x.n \in Nat /\ x.n <= theirs
        BY <1>3 DEF Numbered, Numbers, RowType
      <3>3. r \notin DOMAIN privateChats
        BY <1>3, <1>6, <3>2
      <3>4. (r.from = Me => r.n <= typed') /\ (r.to = Me => r.n <= theirs')
        BY <1>2, <1>3, <1>4, <1>6
      <3>5. Numbers(BagAdd(privateChats, r), typed', theirs')
        BY <1>6, <3>1, <3>3, <3>4, NumbersOfMore
      <3>6. DOMAIN privateChats' = DOMAIN privateChats \cup {r}
        BY <1>3, <1>6, <2>2, BagOperators
      <3>7. QED
        BY <2>2, <3>5, <3>6
    <2>3. QED
      BY <1>2, <2>1, <2>2 DEF save
  <1>11. RequestOrder(toServer)'
    <2>1. \A x \in DOMAIN privateChats' : x.from = Me => x \in DOMAIN privateChats
      BY <1>4, <1>6, <1>10
    <2>2. QED
      BY <1>2, <1>3, <2>1, RequestsStay
  <1>12. Stream' = Append(Stream, m)
    BY <1>2, <1>5, StreamMoves
  <1>13. StreamOrder(Stream)'
    <2>1. m.type # "PRIVATE_CHAT_HISTORY_RESPONSE"
      BY <1>5
    <2>2. QED
      BY <1>2, <1>3, <1>5, <1>7, <1>9, <1>12, <2>1, OrderOfMore
  <1>14. ASSUME Shown'
         PROVE  Converges(toServer', Stream', DOMAIN chatBubbles', DOMAIN privateChats', selectedFriendId')
    <2>1. Shown /\ ~blot' /\ DOMAIN chatBubbles' = DOMAIN chatBubbles
      BY <1>2, <1>14 DEF Shown
    <2>2. Converges(toServer, Stream, DOMAIN chatBubbles, DOMAIN privateChats, p)
      BY <2>1 DEF Follows
    <2>3. DOMAIN privateChats' = DOMAIN privateChats \cup {r}
      BY <1>2, <1>3, <1>6, <2>1, BagOperators DEF save
    <2>4. \A x \in Between(p) : x \in DOMAIN privateChats' \/ Going(toServer, x) <=>
            x \in DOMAIN privateChats \/ Going(toServer, x) \/ (m.type = "CHAT_DIRECT" /\ x \in Brings(m))
      BY <1>5, <2>3
    <2>5. m.type # "PRIVATE_CHAT_HISTORY_RESPONSE"
      BY <1>5
    <2>6. Converges(toServer, Append(Stream, m), DOMAIN chatBubbles, DOMAIN privateChats', p)
      BY <1>3, <1>5, <2>2, <2>4, <2>5, ConvergesWithMore
    <2>7. QED
      BY <1>2, <1>12, <2>1, <2>6
  <1>15. QED
    BY <1>9, <1>10, <1>11, <1>13, <1>14 DEF Follows, Numbered

(* Steps that leave stream, window and table alone.                        *)
LEMMA StillFollows ==
  ASSUME Follows, Stream' = Stream,
         UNCHANGED <<toServer, chatBubbles, privateChats, typed, theirs, screen, selectedFriendId, blot>>
  PROVE  Follows'
  <1>1. Numbered'
    BY DEF Follows, Numbered, StreamOrder, RequestOrder
  <1>2. QED
    BY <1>1 DEF Follows, Shown

(* Every step keeps window, stream and table together.                     *)
LEMMA WindowStep == TypeOK /\ TypeOK' /\ WindowOK /\ [Next]_vars => WindowOK'
  <1> SUFFICES ASSUME TypeOK, TypeOK', WindowOK, [Next]_vars PROVE WindowOK'
    OBVIOUS
  <1>1. connected' => receiver' # "returns"
    BY ReceiverStep DEF WindowOK
  <1>2. screen' = "Chat" => callbacks' = "set"
    BY CallbacksStep DEF WindowOK
  <1>3. ASSUME Alive' PROVE Follows'
    <2>1. Alive /\ Follows /\ receiver # "returns" /\ (screen = "Chat" => callbacks = "set")
      BY <1>3, AliveBefore DEF WindowOK, Alive
    <2>2. CASE Click
      <3>1. ~DiesOfSend /\ ~CloseWindow
        BY <1>3 DEF DiesOfSend, SendKills, CloseWindow, stop, Alive
      <3>2. QED
        BY <1>3, <2>1, <2>2, <3>1, EnterFollows, SelectFollows, TypeFollows DEF Click
    <2>3. CASE consumeNetworkEvents
      <3>1. PICK e \in Range(events) : handleMessage(e) \/ CallsGoneScreen(e)
        BY <2>3 DEF consumeNetworkEvents
      <3>2. ~CallsGoneScreen(e)
        BY <1>3 DEF CallsGoneScreen, Alive
      <3>3. QED
        BY <1>3, <2>1, <3>1, <3>2, EventFollows
    <2>4. CASE Server \/ Peers
      BY <1>3, <2>1, <2>4, ServerFollows, PeersFollow
    <2>5. CASE Network \/ Joins
      BY <1>3, <2>1, <2>5 DEF Network, closeConnection, ServerCrash, Hangup, Joins, Joined, Alive
    <2>6. CASE Receiver
      <3>1. receiveMessage /\ connected /\ program = "runs"
        BY <2>1, <2>6 DEF Receiver, Receive, isConnected, receiveEOF, Alive
      <3>2. toMe # <<>> /\ toMe' = Tail(toMe) /\ events' = Append(events, Head(toMe)) /\ toServer' = toServer
        BY <3>1 DEF receiveMessage, push
      <3>3. Stream' = Stream
        BY <3>2, StreamMoves
      <3>4. QED
        BY <2>1, <2>6, <3>2, <3>3, StillFollows DEF Receiver, service, Stays, window, history
    <2>7. CASE (\E n \in Mine : Timer(n)) \/ UNCHANGED vars
      <3>1. Stream' = Stream
        BY <2>7 DEF Timer, vars, network, Stream
      <3>2. QED
        BY <2>1, <2>7, <3>1, StillFollows DEF Timer, vars, network, service, window, history
    <2>8. QED
      BY <2>2, <2>3, <2>4, <2>5, <2>6, <2>7 DEF Next
  <1>4. QED
    BY <1>1, <1>2, <1>3 DEF WindowOK

----------------------------------------------------------------------------
(* The theorems.                                                           *)

(* One message is answered at a time, a thread that has outlived its       *)
(* answer ends, and window and table differ by what is under way only.     *)
THEOREM Invariance == Spec => []IInv
  <1>1. IInv /\ [Next]_vars => IInv'
    BY TypeStep, AnswerStep, TimerStep, WindowStep DEF IInv
  <1>2. QED
    BY Start, <1>1, PTL DEF Spec

(* While the chat waits, no acknowledgement that is under way belongs to   *)
(* an earlier message (onServerACK does not look at what is acknowledged). *)
THEOREM AckIsAwaited == Spec => []AckIsForTheAwaited
  <1>1. IInv => AckIsForTheAwaited
    <2> SUFFICES ASSUME IInv, chatState = "WAIT_ACK", NEW m \in Acks PROVE m.n = awaited
      BY DEF AckIsForTheAwaited
    <2>1. Sole(toMe, "CHAT_DIRECT_ACK", awaited) /\ Sole(events, "CHAT_DIRECT_ACK", awaited)
      BY DEF IInv, OneAnswer
    <2>2. toMe \in Seq(Event) /\ events \in Seq(Event)
      BY DEF IInv, TypeOK
    <2>3. /\ \A x \in Range(toMe) : \E i \in 1..Len(toMe) : x = toMe[i]
          /\ \A x \in Range(events) : \E i \in 1..Len(events) : x = events[i]
      BY <2>2 DEF Range
    <2>4. QED
      BY <2>1, <2>3 DEF Acks, Sole
  <1>2. QED
    BY <1>1, Invariance, PTL

(* A thread that fails the chat is that of the message the chat waits for  *)
(* (startAckTimer), unless a message was sent while an earlier thread had  *)
(* not seen its answer yet.                                                *)
THEOREM OwnTimeout == Spec => TimeoutIsOwn
  <1>1. IInv /\ [Next]_vars =>
          [\A n \in Mine : timers[n] = Writes /\ chatState' = "FAILED" => overtaken \/ n = awaited]_vars
    BY DEF IInv, OwnTimers, Writes, Off
  <1>2. QED
    BY <1>1, Invariance, PTL DEF Spec, TimeoutIsOwn

(* At rest the window shows what the table holds for the selected friend,  *)
(* unless a bubble was not sent or typed too early, a message not saved or *)
(* the friend's history not read in full (buildChatHistory,                *)
(* handleChatDirect, handlePrivateChatHistoryRequest).                     *)
THEOREM WindowIsTable == Spec => []WindowShowsTable
  <1>1. IInv => WindowShowsTable
    <2> SUFFICES ASSUME IInv, AtRest, screen = "Chat", selectedFriendId # NoPeer, ~blot
                 PROVE  chatBubbles = getPrivateChatHistory(selectedFriendId, Saved)
      BY DEF WindowShowsTable
    <2> DEFINE p == selectedFriendId
               h == getPrivateChatHistory(p, Saved)
    <2>1. toServer = <<>> /\ Stream = <<>>
      <3>1. /\ toServer \in Seq(Request) /\ toMe \in Seq(Event) /\ events \in Seq(Event)
            /\ Len(toServer) + Len(toMe) + Len(events) = 0
        BY DEF IInv, TypeOK, AtRest, UnderWay
      <3>2. Len(toServer) = 0 /\ Len(toMe) = 0 /\ Len(events) = 0
        BY <3>1, LenProperties
      <3>3. toServer = <<>> /\ toMe = <<>> /\ events = <<>>
        BY <3>1, <3>2, EmptySeq
      <3>4. QED
        BY <3>3 DEF Stream
    <2>2. Numbered /\ Converges(<<>>, <<>>, DOMAIN chatBubbles, DOMAIN privateChats, p)
      BY <2>1 DEF IInv, WindowOK, Follows, Shown, AtRest, Alive
    <2>3. Settled(DOMAIN chatBubbles, 0, <<>>, <<>>, DOMAIN privateChats, p)
      BY <2>2 DEF Converges, LastAsked, LastSettles
    <2>4. \A r : ~Going(<<>>, r) /\ ~Coming(<<>>, 0, r)
      BY DEF Going, Coming
    <2>5. DOMAIN chatBubbles = DOMAIN privateChats \cap Between(p)
      BY <2>3, <2>4 DEF Settled
    <2>6. /\ h \in RowBag /\ DOMAIN h = DOMAIN privateChats \cap Between(p)
          /\ \A r \in DOMAIN h : h[r] = privateChats[r]
      BY HistoryIsRows DEF IInv, TypeOK, Saved, BagToSet
    <2>7. Numbers(h, typed, theirs) /\ Numbers(chatBubbles, typed, theirs)
      BY <2>2, NumbersOfHistory DEF Numbered, IInv, TypeOK
    <2>8. h = [r \in DOMAIN h |-> 1] /\ chatBubbles = [r \in DOMAIN chatBubbles |-> 1]
      BY <2>7 DEF Numbers
    <2> HIDE DEF h
    <2>9. chatBubbles = h
      BY <2>5, <2>6, <2>8
    <2>10. QED
      BY <2>9 DEF h
  <1>2. QED
    BY <1>1, Invariance, PTL


----------------------------------------------------------------------------
(* What the chat and the end of the program wait for.                      *)

(* The thread of the awaited message is alive, and the flag does not stop  *)
(* it.                                                                     *)
TimerRuns ==
  chatState = "WAIT_ACK" => ackTimerActive /\ awaited \in Mine /\ timers[awaited] # Off

(* What a thread's step does while the chat waits.                         *)
LEMMA TimerGoesDown ==
  ASSUME TypeOK, TimerRuns, chatState = "WAIT_ACK", NEW n \in Mine, Timer(n)
  PROVE  /\ UNCHANGED <<ackTimerActive, awaited>>
         /\ \A k \in Mine : timers'[k] <= timers[k]
         /\ chatState' = "WAIT_ACK" => timers'[n] < timers[n] /\ timers'[n] # Off
  <1>1. timers \in [Mine -> Nat] /\ ackTimerActive /\ timers[n] \in Nat
    BY DEF TypeOK, TimerRuns
  <1>2. UNCHANGED <<ackTimerActive, awaited>>
    BY DEF Timer, Poll, onAckTimeout, setChatFailed
  <1>3. CASE Poll(n)
    <2>1. timers' = [timers EXCEPT ![n] = timers[n] - 1] /\ timers[n] > 2
      BY <1>1, <1>3 DEF Poll, Goes, Fires
    <2>2. QED
      BY <1>1, <1>2, <2>1 DEF Off
  <1>4. CASE onAckTimeout(n)
    <2>1. timers' = [timers EXCEPT ![n] = 1] /\ timers[n] = 2
      BY <1>1, <1>4 DEF onAckTimeout, Goes, Fires, Writes
    <2>2. QED
      BY <1>1, <1>2, <2>1 DEF Off
  <1>5. CASE setChatFailed(n)
    <2>1. timers' = [timers EXCEPT ![n] = 0] /\ chatState' = "FAILED"
      BY <1>5 DEF setChatFailed, Goes, Off
    <2>2. QED
      BY <1>1, <1>2, <2>1
  <1>6. QED
    BY <1>3, <1>4, <1>5 DEF Timer

(* What any other step does: the chat waits for the same message, or does  *)
(* not wait.                                                               *)
LEMMA WaitStep ==
  ASSUME TypeOK, [Next]_vars, \A n \in Mine : ~Timer(n)
  PROVE  \/ UNCHANGED <<chatState, ackTimerActive, timers, awaited>>
         \/ chatState' # "WAIT_ACK"
         \/ /\ chatState = "IDLE" /\ ackTimerActive' /\ awaited' = typed + 1 /\ typed + 1 \in Mine
            /\ timers' = [timers EXCEPT ![typed + 1] = Fires + Polls]
  <1>1. CASE Forgets
    BY <1>1 DEF Forgets
  <1>2. CASE UNCHANGED <<fsm, awaited>>
    BY <1>2 DEF fsm
  <1>3. CASE TypeMessage
    <2>1. typed + 1 \in Mine
      BY <1>3, ChatAssumption DEF TypeMessage, TypeOK, Mine
    <2>2. CASE onSendPrivateChat
      BY <2>1, <2>2 DEF onSendPrivateChat, startAckTimer
    <2>3. CASE SendPrivateChatFails \/ ChatIsBusy
      BY <1>2, <2>3 DEF SendPrivateChatFails, ChatIsBusy
    <2>4. QED
      BY <1>3, <2>2, <2>3 DEF TypeMessage
  <1>4. CASE consumeNetworkEvents
    <2>1. PICK e \in Range(events) : handleMessage(e) \/ CallsGoneScreen(e)
      BY <1>4 DEF consumeNetworkEvents
    <2>2. CASE handleMessage(e)
      <3>1. CASE onServerACK
        BY <2>2, <3>1, HandledEvent DEF onServerACK, fsm
      <3>2. CASE UNCHANGED <<fsm, history>>
        BY <1>2, <3>2 DEF history
      <3>3. QED
        BY <2>2, <3>1, <3>2, HandledEvent DEF onServerDeliverMessage, Shows
    <2>3. QED
      BY <1>1, <2>1, <2>2 DEF CallsGoneScreen
  <1>5. CASE Click /\ ~TypeMessage
    BY <1>1, <1>2, <1>5 DEF Click, onEnter, onExit, SelectFriend, DiesOfSend, CloseWindow, history
  <1>6. CASE Server \/ Peers \/ Network \/ Receiver \/ Joins \/ UNCHANGED vars
    BY <1>2, <1>6 DEF Server, Peers, Network, Receiver, Joins, Blots, Stays, vars, history
  <1>7. QED
    BY <1>3, <1>4, <1>5, <1>6 DEF Next

(* While the chat waits for an acknowledgement the thread that would fail  *)
(* it is alive, with the flag up, whatever threads of earlier messages do  *)
(* with the same flag (startAckTimer, stopAckTimer).                       *)
THEOREM WaitingHasItsTimer == Spec => []TimerRuns
  <1>1. Init => TimerRuns
    BY DEF Init, TimerRuns
  <1>2. ASSUME TypeOK, TimerRuns, [Next]_vars PROVE TimerRuns'
    <2>1. CASE \E n \in Mine : Timer(n)
      <3>1. PICK n \in Mine : Timer(n)
        BY <2>1
      <3>2. ASSUME chatState' = "WAIT_ACK"
            PROVE  ackTimerActive' /\ awaited' \in Mine /\ timers'[awaited'] # Off
        <4>1. chatState = "WAIT_ACK"
          BY <3>1, <3>2 DEF Timer, Poll, onAckTimeout, setChatFailed
        <4>2. /\ UNCHANGED <<ackTimerActive, awaited>> /\ timers'[n] # Off
              /\ ackTimerActive /\ awaited \in Mine /\ timers[awaited] # Off
          BY <1>2, <3>1, <3>2, <4>1, TimerGoesDown DEF TimerRuns
        <4>3. \A k \in Mine : k # n => timers'[k] = timers[k]
          BY <1>2, <3>1 DEF Timer, Poll, onAckTimeout, setChatFailed, Goes, TypeOK
        <4>4. QED
          BY <4>2, <4>3
      <3>3. QED
        BY <3>2 DEF TimerRuns
    <2>2. CASE \A n \in Mine : ~Timer(n)
      <3>1. CASE UNCHANGED <<chatState, ackTimerActive, timers, awaited>>
        BY <1>2, <3>1 DEF TimerRuns
      <3>2. CASE chatState' # "WAIT_ACK"
        BY <3>2 DEF TimerRuns
      <3>3. CASE /\ ackTimerActive' /\ awaited' = typed + 1 /\ typed + 1 \in Mine
                 /\ timers' = [timers EXCEPT ![typed + 1] = Fires + Polls]
        BY <1>2, <3>3, ChatAssumption DEF TimerRuns, TypeOK, Fires, Off
      <3>4. QED
        BY <1>2, <2>2, <3>1, <3>2, <3>3, WaitStep
    <2>3. QED
      BY <2>1, <2>2
  <1>3. IInv /\ TimerRuns /\ [Next]_vars => TimerRuns'
    BY <1>2 DEF IInv
  <1>4. QED
    BY <1>1, <1>3, Invariance, PTL DEF Spec

(* As long as the chat waits it waits for the same message, no thread gets *)
(* a longer time, and every step of a thread shortens its own: a thread    *)
(* takes no more than Polls + 1 steps before the wait is over, and all     *)
(* that WaitingEnds leaves to fairness is that the threads run on          *)
(* (startAckTimer, onAckTimeout).                                          *)
THEOREM WaitingGetsShorter ==
  Spec => [][chatState = "WAIT_ACK" /\ chatState' = "WAIT_ACK" =>
               /\ awaited' = awaited
               /\ \A n \in Mine : /\ timers'[n] <= timers[n]
                                  /\ Timer(n) => timers'[n] < timers[n]]_vars
  <1>1. ASSUME TypeOK, TimerRuns, [Next]_vars, chatState = "WAIT_ACK", chatState' = "WAIT_ACK"
        PROVE  /\ awaited' = awaited
               /\ \A n \in Mine : timers'[n] <= timers[n] /\ (Timer(n) => timers'[n] < timers[n])
    <2>1. CASE \E n \in Mine : Timer(n)
      BY <1>1, <2>1, TimerGoesDown
    <2>2. CASE \A n \in Mine : ~Timer(n)
      BY <1>1, <2>2, WaitStep DEF TypeOK
    <2>3. QED
      BY <2>1, <2>2
  <1>2. IInv /\ TimerRuns /\ [Next]_vars =>
          [chatState = "WAIT_ACK" /\ chatState' = "WAIT_ACK" =>
               /\ awaited' = awaited
               /\ \A n \in Mine : /\ timers'[n] <= timers[n]
                                  /\ Timer(n) => timers'[n] < timers[n]]_vars
    BY <1>1 DEF IInv
  <1>3. QED
    BY <1>2, Invariance, WaitingHasItsTimer, PTL DEF Spec

(* The states of the receiver, and a program that ends has closed its end. *)
Stopping ==
  /\ receiver \in {"recv", "ended", "returns"}
  /\ program = "stops" => ~connected

(* Every step keeps that.                                                  *)
LEMMA StoppingStep == Stopping /\ [Next]_vars => Stopping'
  <1> SUFFICES ASSUME Stopping, [Next]_vars PROVE Stopping'
    OBVIOUS
  <1>1. CASE Click
    BY <1>1 DEF Click, onEnter, onExit, TypeMessage, DiesOfSend, CloseWindow, SelectFriend, Requests, Sends,
                SendFails, SendKills, disconnect, stop, onSendPrivateChat, SendPrivateChatFails, ChatIsBusy,
                network, Stopping, MayClick, startAckTimer
  <1>2. CASE consumeNetworkEvents
    BY <1>2 DEF consumeNetworkEvents, handleMessage, CallsGoneScreen, Pops, Stopping
  <1>3. CASE Server \/ Peers
    <2>1. UNCHANGED <<connected, receiver, program>>
      BY <1>3 DEF Server, Peers, Handle, handleChatDirect, handlePrivateChatHistoryRequest,
                  handleFriendListRequest, Answer, PeerWrites
    <2>2. QED
      BY <2>1 DEF Stopping
  <1>4. CASE Network \/ Receiver \/ Joins
    BY <1>4 DEF Network, closeConnection, ServerCrash, Receiver, Receive, isConnected, receiveMessage,
                receiveEOF, pushDisconnect, push, Joins, Joined, Stopping
  <1>5. CASE (\E n \in Mine : Timer(n)) \/ UNCHANGED vars
    BY <1>5 DEF Timer, vars, network, Stopping
  <1>6. QED
    BY <1>1, <1>2, <1>3, <1>4, <1>5 DEF Next

(* The join has something to return for.                                   *)
MayReturn == program = "stops" /\ (receiver # "recv" \/ toMe # <<>> \/ ~serverOpen)

(* A closed window stays so: the reason for the receiver to return is not  *)
(* taken away, its next step is its last, and it does not begin again; so  *)
(* all that StopReturns leaves to fairness is that the receiver goes on    *)
(* and the join returns (stop, receive, run).                              *)
THEOREM StopIsNotHeldUp ==
  Spec => [][MayReturn => /\ MayReturn' \/ program' = "over"
                          /\ Receiver => receiver' = "ended"
                          /\ receiver = "ended" => receiver' = "ended"]_vars
  <1>1. Init => Stopping
    BY DEF Init, NetworkInit, Stopping
  <1>2. ASSUME TypeOK, Stopping, [Next]_vars, MayReturn
        PROVE  /\ MayReturn' \/ program' = "over"
               /\ Receiver => receiver' = "ended"
               /\ receiver = "ended" => receiver' = "ended"
    <2>1. program = "stops" /\ ~connected /\ toMe \in Seq(Event)
      BY <1>2 DEF MayReturn, Stopping, TypeOK
    <2>2. ~Click /\ ~consumeNetworkEvents /\ \A n \in Mine : ~Timer(n)
      BY <2>1 DEF Click, onEnter, onExit, TypeMessage, DiesOfSend, CloseWindow, SelectFriend, MayClick,
                  stop, consumeNetworkEvents, handleMessage, CallsGoneScreen, Pops, Timer
    <2>3. Receiver => receiver' = "ended" /\ program' = program
      BY <2>1 DEF Receiver, Receive, isConnected, receiveMessage, receiveEOF, pushDisconnect
    <2>4. CASE Receiver
      BY <1>2, <2>1, <2>3, <2>4 DEF MayReturn
    <2>5. CASE Server \/ Peers
      <3>1. /\ UNCHANGED <<serverOpen, receiver, program>>
            /\ \E m : toMe' = Append(toMe, m)
        BY <2>5 DEF Server, Peers, Handle, handleChatDirect, handlePrivateChatHistoryRequest,
                    handleFriendListRequest, Answer, PeerWrites
      <3>2. toMe' # <<>>
        BY <2>1, <3>1
      <3>3. ~Receiver \/ receiver' = "ended"
        BY <2>3
      <3>4. QED
        BY <1>2, <3>1, <3>2, <3>3 DEF MayReturn
    <2>6. CASE Network \/ Joins \/ UNCHANGED vars
      BY <1>2, <2>3, <2>6 DEF Network, closeConnection, ServerCrash, Joins, Joined, MayReturn, vars, network
    <2>7. QED
      BY <1>2, <2>2, <2>4, <2>5, <2>6 DEF Next
  <1>3. IInv /\ Stopping /\ [Next]_vars =>
          [MayReturn => /\ MayReturn' \/ program' = "over"
                        /\ Receiver => receiver' = "ended"
                        /\ receiver = "ended" => receiver' = "ended"]_vars
    BY <1>2 DEF IInv
  <1>4. QED
    BY <1>1, <1>3, StoppingStep, Invariance, PTL DEF Spec
=============================================================================
