--------------------------- MODULE LuckyWheel_proofs ---------------------------
(***************************************************************************)
(* The lucky wheel: whose reward it turns to, and that the client's        *)
(* balance is the row's at rest, for any cost, rewards and width, and any  *)
(* number of spins, hands and messages under way.                          *)
(*                                                                         *)
(* Two arguments follow the messages through the three queues.  While the  *)
(* wheel was not left with a spin under way there is at most one spin in   *)
(* all queues together, and it is the current one.  And the last answer    *)
(* that bears a balance, or else what the client holds, is what the row    *)
(* holds.                                                                  *)
(***************************************************************************)
EXTENDS LuckyWheel, SequenceTheorems, TLAPS

RequestMsg == [type : {"SPIN"}, n : Nat] \cup [type : {"BALANCE"}]

AnswerMsg ==
  [type : {"SPIN"}, n : Nat, success : BOOLEAN, reward : Reward \cup {NoReward}, newBalance : Int]
    \cup [type : {"BALANCE"}, success : BOOLEAN, balance : Int]

EventMsg == AnswerMsg \cup {DisconnectEvent}

Queues == toServer \in Seq(RequestMsg) /\ toMe \in Seq(AnswerMsg) /\ events \in Seq(EventMsg)

Numbers ==
  /\ balance \in Int /\ sessionBalance \in Int /\ pendingNewBalance \in Int
  /\ spins \in Nat

Flags ==
  /\ connected \in BOOLEAN /\ serverOpen \in BOOLEAN
  /\ spinning \in BOOLEAN /\ waitingForServer \in BOOLEAN /\ hasServerResult \in BOOLEAN
  /\ left \in BOOLEAN /\ stale \in BOOLEAN

TypeOK == Queues /\ Numbers /\ Flags

(* The wheel spins on its screen only, whose callback is set.              *)
SpinsOnScreen ==
  /\ screen = "LuckyWheel" => callback = "set"
  /\ spinning => screen = "LuckyWheel"

----------------------------------------------------------------------------
(* Spins in a queue.                                                       *)

IsSpin(m) == m.type = "SPIN"

Has(q) == \E i \in 1..Len(q) : IsSpin(q[i])

AtMostOne(q) == \A i, j \in 1..Len(q) : IsSpin(q[i]) /\ IsSpin(q[j]) => i = j

Own(q, k) == \A i \in 1..Len(q) : IsSpin(q[i]) => q[i].n = k

OneSpin ==
  /\ AtMostOne(toServer) /\ AtMostOne(toMe) /\ AtMostOne(events)
  /\ Has(toServer) => ~Has(toMe) /\ ~Has(events)
  /\ Has(toMe) => ~Has(events)

OwnSpins == Own(toServer, spins) /\ Own(toMe, spins) /\ Own(events, spins)

SomeSpin == Has(toServer) \/ Has(toMe) \/ Has(events)

OneOwnSpin ==
  ~left => /\ OneSpin /\ OwnSpins
           /\ SomeSpin => waitingForServer /\ screen = "LuckyWheel"
           /\ spinning /\ hasServerResult => targetOf = spins

(* No spin is in an empty queue.                                           *)
LEMMA EmptyQueue == ~Has(<<>>) /\ AtMostOne(<<>>) /\ \A k : Own(<<>>, k)
  BY DEF Has, AtMostOne, Own

(* What is left of a queue when its head is taken.                         *)
LEMMA TailOfQueue ==
  ASSUME NEW S, NEW q \in Seq(S), q # <<>>, NEW k
  PROVE  /\ Head(q) \in S /\ Tail(q) \in Seq(S)
         /\ Has(q) <=> Has(Tail(q)) \/ IsSpin(Head(q))
         /\ AtMostOne(q) => AtMostOne(Tail(q)) /\ (IsSpin(Head(q)) => ~Has(Tail(q)))
         /\ Own(q, k) => Own(Tail(q), k) /\ (IsSpin(Head(q)) => Head(q).n = k)
  <1>1. /\ Len(q) \in Nat \ {0} /\ Head(q) = q[1] /\ Len(Tail(q)) = Len(q) - 1
        /\ \A i \in 1..Len(Tail(q)) : i + 1 \in 1..Len(q) /\ Tail(q)[i] = q[i + 1]
        /\ Head(q) \in S /\ Tail(q) \in Seq(S)
    BY EmptySeq, HeadTailProperties
  <1>2. \A i \in 1..Len(q) : i = 1 \/ (i - 1 \in 1..Len(Tail(q)) /\ Tail(q)[i - 1] = q[i])
    BY <1>1
  <1>3. Has(q) <=> Has(Tail(q)) \/ IsSpin(Head(q))
    <2>1. ASSUME NEW i \in 1..Len(q), IsSpin(q[i]) PROVE Has(Tail(q)) \/ IsSpin(Head(q))
      <3>1. CASE i = 1
        BY <1>1, <2>1, <3>1
      <3>2. CASE i - 1 \in 1..Len(Tail(q)) /\ Tail(q)[i - 1] = q[i]
        BY <2>1, <3>2 DEF Has
      <3>3. QED
        BY <1>2, <3>1, <3>2
    <2>2. ASSUME NEW i \in 1..Len(Tail(q)), IsSpin(Tail(q)[i]) PROVE Has(q)
      BY <1>1, <2>2 DEF Has
    <2>3. IsSpin(Head(q)) => Has(q)
      BY <1>1 DEF Has
    <2>4. QED
      BY <2>1, <2>2, <2>3 DEF Has
  <1>4. ASSUME AtMostOne(q) PROVE AtMostOne(Tail(q)) /\ (IsSpin(Head(q)) => ~Has(Tail(q)))
    <2>1. AtMostOne(Tail(q))
      BY <1>1, <1>4 DEF AtMostOne
    <2>2. ASSUME IsSpin(Head(q)), NEW i \in 1..Len(Tail(q)), IsSpin(Tail(q)[i]) PROVE FALSE
      <3>1. i + 1 \in 1..Len(q) /\ IsSpin(q[i + 1]) /\ 1 \in 1..Len(q) /\ IsSpin(q[1])
        BY <1>1, <2>2
      <3>2. i + 1 = 1
        BY <1>4, <3>1 DEF AtMostOne
      <3>3. QED
        BY <1>1, <3>2
    <2>3. QED
      BY <2>1, <2>2 DEF Has
  <1>5. Own(q, k) => Own(Tail(q), k) /\ (IsSpin(Head(q)) => Head(q).n = k)
    BY <1>1 DEF Own
  <1>6. QED
    BY <1>1, <1>3, <1>4, <1>5

(* A queue with one more message.                                          *)
LEMMA EndOfQueue ==
  ASSUME NEW S, NEW q \in Seq(S), NEW m \in S, NEW k
  PROVE  /\ Append(q, m) \in Seq(S)
         /\ Has(Append(q, m)) <=> Has(q) \/ IsSpin(m)
         /\ AtMostOne(q) /\ (IsSpin(m) => ~Has(q)) => AtMostOne(Append(q, m))
         /\ Own(q, k) /\ (IsSpin(m) => m.n = k) => Own(Append(q, m), k)
  <1> DEFINE r == Append(q, m)
  <1>1. /\ Len(q) \in Nat /\ Len(r) = Len(q) + 1 /\ r[Len(q) + 1] = m /\ r \in Seq(S)
        /\ \A i \in 1..Len(q) : r[i] = q[i]
    BY AppendProperties, LenProperties
  <1>2. \A i \in 1..Len(r) : (i \in 1..Len(q) /\ r[i] = q[i]) \/ (i = Len(q) + 1 /\ r[i] = m)
    BY <1>1
  <1>3. Has(r) <=> Has(q) \/ IsSpin(m)
    BY <1>1, <1>2 DEF Has
  <1>4. AtMostOne(q) /\ (IsSpin(m) => ~Has(q)) => AtMostOne(r)
    BY <1>2 DEF AtMostOne, Has
  <1>5. Own(q, k) /\ (IsSpin(m) => m.n = k) => Own(r, k)
    BY <1>2 DEF Own
  <1>6. QED
    BY <1>1, <1>3, <1>4, <1>5

(* What the model says of the messages under way.                          *)
LEMMA SomeSpinIsUnderWay == ASSUME Queues PROVE SpinUnderWay <=> SomeSpin
  <1>1. \A S : \A q \in Seq(S) : (\E m \in Range(q) : m.type = "SPIN") <=> Has(q)
    <2>1. ASSUME NEW S, NEW q \in Seq(S)
          PROVE  (\E m \in Range(q) : m.type = "SPIN") <=> Has(q)
      BY RangeEquality DEF Has, IsSpin
    <2>2. QED
      BY <2>1
  <1>2. QED
    BY <1>1 DEF Queues, SpinUnderWay, SomeSpin

(* Remainders agree however often they are taken.                          *)
LEMMA ModMod ==
  ASSUME NEW x \in Int, NEW w \in Nat \ {0}
  PROVE  x % w \in Int /\ (x % w) % w = x % w
  OBVIOUS

----------------------------------------------------------------------------
(* How the queues change.                                                  *)

(* The event of a broken connection is no answer to a spin.                *)
LEMMA DisconnectIsNoSpin == DisconnectEvent \in EventMsg /\ ~IsSpin(DisconnectEvent)
  BY DEF DisconnectEvent, EventMsg, IsSpin

(* The receiver: at most the head of one queue goes to the end of another. *)
LEMMA NetworkMoves ==
  ASSUME Network
  PROVE  /\ toServer' = toServer \/ toServer' = <<>>
         /\ \/ toMe' = toMe /\ (events' = events \/ events' = Append(events, DisconnectEvent))
            \/ /\ toMe # <<>> /\ toMe' = Tail(toMe)
               /\ \/ events' = events
                  \/ events' = Append(events, DisconnectEvent)
                  \/ connected /\ events' = Append(events, Head(toMe))
         /\ connected' = connected \/ connected' = FALSE
         /\ serverOpen' = serverOpen \/ serverOpen' = FALSE
         /\ program' = program
         /\ UNCHANGED <<balance, sessionBalance, wheel, spins, settled, targetOf, left, stale>>
  <1>1. CASE closeConnection
    BY <1>1 DEF Network, closeConnection
  <1>2. CASE ServerCrash
    BY <1>2 DEF Network, ServerCrash
  <1>3. CASE isConnected
    BY <1>3 DEF Network, isConnected, pushDisconnect, push
  <1>4. CASE receiveMessage
    BY <1>4 DEF Network, receiveMessage, pushDisconnect, push
  <1>5. CASE receiveEOF
    BY <1>5 DEF Network, receiveEOF, pushDisconnect, push
  <1>6. QED
    BY <1>1, <1>2, <1>3, <1>4, <1>5 DEF Network, Receive

(* A click that asks for something: the request goes out, or the           *)
(* connection is not what it was.                                          *)
LEMMA RequestMoves ==
  ASSUME NEW m, Requests(m)
  PROVE  /\ toServer' = toServer \/ toServer' = Append(toServer, m)
         /\ toServer' = Append(toServer, m) \/ ~connected' \/ ~serverOpen
         /\ connected' = connected \/ connected' = FALSE
         /\ UNCHANGED <<toMe, serverOpen, events, balance, sessionBalance, settled, stale, program>>
  BY DEF Requests, Sends, SendFails, disconnect

----------------------------------------------------------------------------

(* Every variable has its type at the start.                               *)
LEMMA TypeInit == Init => TypeOK
  <1>1. Init => Queues
    BY EmptySeq DEF Init, NetworkInit, Queues
  <1>2. ASSUME Init PROVE Numbers
    <2>1. balance \in Int /\ Width \in Nat \ {0}
      BY <1>2, WheelAssumption DEF Init
    <2>2. sessionBalance \in Int
      BY <1>2, <2>1, ModMod DEF Init
    <2>3. QED
      BY <1>2, <2>1, <2>2 DEF Init, Numbers
  <1>3. Init => Flags
    BY DEF Init, NetworkInit, Flags
  <1>4. QED
    BY <1>1, <1>2, <1>3 DEF TypeOK

(* The requests the client sends.                                          *)
LEMMA RequestTypes ==
  /\ \A n \in Nat : [type |-> "SPIN", n |-> n] \in RequestMsg
  /\ [type |-> "BALANCE"] \in RequestMsg
  BY DEF RequestMsg

(* The answers the server gives.                                           *)
LEMMA AnswerTypes ==
  /\ \A n \in Nat, s \in BOOLEAN, r \in Reward \cup {NoReward}, b \in Int :
       [type |-> "SPIN", n |-> n, success |-> s, reward |-> r, newBalance |-> b] \in AnswerMsg
  /\ \A s \in BOOLEAN, b \in Int : [type |-> "BALANCE", success |-> s, balance |-> b] \in AnswerMsg
  BY DEF AnswerMsg

(* What a message of each type holds.                                      *)
LEMMA MessageFields ==
  /\ \A m \in RequestMsg : IsSpin(m) => m.n \in Nat
  /\ AnswerMsg \subseteq EventMsg
  /\ \A e \in EventMsg : IsSpin(e) => e.newBalance \in Int
  /\ \A e \in EventMsg : e.type = "BALANCE" => e.balance \in Int
  BY DEF RequestMsg, AnswerMsg, EventMsg, DisconnectEvent, IsSpin

(* The server answers the head of its queue.                               *)
LEMMA ServerAnswers ==
  ASSUME Queues, Numbers, spin \/ handleRequestBalance
  PROVE  /\ toServer # <<>> /\ Head(toServer) \in RequestMsg /\ toServer' = Tail(toServer)
         /\ \E m \in AnswerMsg :
              /\ toMe' = Append(toMe, m)
              /\ IsSpin(m) <=> IsSpin(Head(toServer))
              /\ IsSpin(m) => m.n = Head(toServer).n
         /\ UNCHANGED <<serverOpen, connected, receiver, events, program>>
         /\ UNCHANGED <<sessionBalance, wheel, spins, settled, targetOf, left>>
         /\ balance' \in Int
  <1> DEFINE h == Head(toServer)
  <1>0. Cost \in Nat /\ Reward \subseteq Nat
    BY WheelAssumption
  <1>1. toServer # <<>> /\ h \in RequestMsg /\ toServer' = Tail(toServer)
    BY HeadTailProperties
       DEF Queues, spin, handleRequestBalance, Handles, NotEnough, InternalError, Wins, Answer
  <1>2. /\ UNCHANGED <<serverOpen, connected, receiver, events, program>>
        /\ UNCHANGED <<sessionBalance, wheel, spins, settled, targetOf, left>>
    BY DEF spin, handleRequestBalance, NotEnough, InternalError, Wins, Answer
  <1>3. balance' \in Int
    <2>1. \A r \in Reward : Wins(r) => balance' \in Int
      BY <1>0 DEF Numbers, Wins
    <2>2. QED
      BY <2>1 DEF Numbers, spin, handleRequestBalance, NotEnough, InternalError
  <1>4. CASE spin
    <2>1. h.type = "SPIN" /\ h.n \in Nat
      BY <1>1, <1>4, MessageFields DEF spin, Handles, IsSpin
    <2>2. \A s \in BOOLEAN, r \in Reward \cup {NoReward}, b \in Int :
            /\ SpinAnswer(s, r, b) \in AnswerMsg
            /\ IsSpin(SpinAnswer(s, r, b)) /\ SpinAnswer(s, r, b).n = h.n
      BY <2>1, AnswerTypes DEF SpinAnswer, IsSpin
    <2>3. \E s \in BOOLEAN, r \in Reward \cup {NoReward}, b \in Int : Answer(SpinAnswer(s, r, b))
      <3>1. 0 \in Int /\ balance \in Int /\ \A r \in Reward : newBalance(r) \in Int
        BY <1>0 DEF newBalance, Numbers
      <3>2. TRUE \in BOOLEAN /\ FALSE \in BOOLEAN /\ NoReward \in Reward \cup {NoReward}
        OBVIOUS
      <3>3. CASE NotEnough \/ InternalError
        BY <3>1, <3>2, <3>3, Zenon DEF NotEnough, InternalError
      <3>4. CASE \E r \in Reward : Wins(r)
        BY <3>1, <3>2, <3>4, Zenon DEF Wins
      <3>5. QED
        BY <1>4, <3>3, <3>4 DEF spin
    <2>4. QED
      BY <1>1, <1>2, <1>3, <2>1, <2>2, <2>3 DEF Answer, IsSpin
  <1>5. CASE handleRequestBalance
    <2>1. PICK success \in BOOLEAN :
            Answer([type |-> "BALANCE", success |-> success, balance |-> balance])
      BY <1>5 DEF handleRequestBalance
    <2>2. [type |-> "BALANCE", success |-> success, balance |-> balance] \in AnswerMsg
      BY AnswerTypes DEF Numbers
    <2>3. h.type = "BALANCE"
      BY <1>5 DEF handleRequestBalance, Handles
    <2>4. QED
      BY <1>1, <1>2, <1>3, <2>1, <2>2, <2>3 DEF Answer, IsSpin
  <1>6. QED
    BY <1>4, <1>5

(* A step puts requests, answers and events into their queues only.        *)
LEMMA QueuesStep ==
  ASSUME Queues, Numbers, [Next]_vars
  PROVE  Queues'
  <1>1. CASE UNCHANGED vars \/ EnterWheel \/ DiesOfSend \/ Stop \/ \E d \in Loss : updateBalance(d)
    <2>1. UNCHANGED <<toServer, toMe, events>>
      BY <1>1 DEF vars, network, EnterWheel, DiesOfSend, SendKills, Stop, updateBalance
    <2>2. QED
      BY <2>1 DEF Queues
  <1>2. CASE Spin \/ Back
    <2>1. PICK m \in RequestMsg : Requests(m)
      BY <1>2, RequestTypes DEF Spin, Back, Numbers
    <2>2. Append(toServer, m) \in Seq(RequestMsg)
      BY <2>1, AppendProperties DEF Queues
    <2>3. QED
      BY <2>1, <2>2, RequestMoves DEF Queues
  <1>3. CASE consumeNetworkEvents
    BY <1>3, HeadTailProperties DEF Queues, consumeNetworkEvents, handleMessage, CallsGoneScreen, Pops
  <1>4. CASE spin \/ handleRequestBalance
    <2>1. /\ toServer # <<>> /\ toServer' = Tail(toServer) /\ events' = events
          /\ \E m \in AnswerMsg : toMe' = Append(toMe, m)
      BY <1>4, ServerAnswers
    <2>2. Tail(toServer) \in Seq(RequestMsg)
      BY <2>1, HeadTailProperties DEF Queues
    <2>3. toMe' \in Seq(AnswerMsg)
      BY <2>1, AppendProperties DEF Queues
    <2>4. QED
      BY <2>1, <2>2, <2>3 DEF Queues
  <1>5. CASE Network
    <2>1. toServer' \in Seq(RequestMsg)
      BY <1>5, NetworkMoves, EmptySeq DEF Queues
    <2>2. toMe' \in Seq(AnswerMsg) /\ (toMe # <<>> => Head(toMe) \in EventMsg)
      BY <1>5, MessageFields, NetworkMoves, HeadTailProperties DEF Queues
    <2>3. events' = events \/ \E m \in EventMsg : events' = Append(events, m)
      BY <1>5, <2>2, NetworkMoves, DisconnectIsNoSpin
    <2>4. events' \in Seq(EventMsg)
      BY <2>3, AppendProperties DEF Queues
    <2>5. QED
      BY <2>1, <2>2, <2>4 DEF Queues
  <1>6. QED
    BY <1>1, <1>2, <1>3, <1>4, <1>5 DEF Next

(* Balances remain integers, and the number of spins a natural.            *)
LEMMA NumbersStep ==
  ASSUME Queues, Numbers, [Next]_vars
  PROVE  Numbers'
  <1>0. Width \in Nat \ {0} /\ Loss \subseteq Nat
    BY WheelAssumption
  <1>1. CASE UNCHANGED vars \/ EnterWheel \/ DiesOfSend \/ Stop
    BY <1>1 DEF Numbers, vars, wheel, EnterWheel, Fresh, DiesOfSend, Stop
  <1>2. CASE Spin \/ Back
    BY <1>2 DEF Numbers, Spin, Back, Fresh, Requests
  <1>3. ASSUME NEW e, handleMessage(e) PROVE Numbers'
    <2>1. e \in EventMsg
      BY <1>3, HeadTailProperties DEF handleMessage, Pops, Queues
    <2>2. UNCHANGED <<balance, spins>>
      BY <1>3 DEF handleMessage
    <2>3. CASE e.type = "SPIN" /\ onSpinResponse(e)
      <3>1. e.newBalance \in Int
        BY <2>1, <2>3, MessageFields DEF IsSpin
      <3>2. QED
        BY <2>2, <2>3, <3>1 DEF Numbers, onSpinResponse, SpinSucceeds, SpinFails, wheel
    <2>4. CASE e.type = "BALANCE" /\ onBalanceResponse(e)
      <3>1. e.balance % Width \in Int
        BY <1>0, <2>1, <2>4, MessageFields, ModMod
      <3>2. QED
        BY <2>2, <2>4, <3>1 DEF Numbers, onBalanceResponse, parseUint32Field, wheel
    <2>5. CASE UNCHANGED <<sessionBalance, wheel, targetOf>>
      BY <2>2, <2>5 DEF Numbers, wheel
    <2>6. QED
      BY <1>3, <2>3, <2>4, <2>5 DEF handleMessage
  <1>4. ASSUME NEW e, CallsGoneScreen(e) PROVE Numbers'
    BY <1>4 DEF Numbers, CallsGoneScreen, wheel
  <1>5. CASE spin \/ handleRequestBalance
    BY <1>5, ServerAnswers DEF Numbers, wheel
  <1>6. CASE Network
    BY <1>6 DEF Network, Numbers, wheel
  <1>7. ASSUME NEW d \in Loss, updateBalance(d) PROVE Numbers'
    BY <1>0, <1>7 DEF Numbers, updateBalance, wheel
  <1>8. QED
    BY <1>1, <1>2, <1>3, <1>4, <1>5, <1>6, <1>7 DEF Next, consumeNetworkEvents

(* The flags remain flags.                                                 *)
LEMMA FlagsStep ==
  ASSUME Flags, [Next]_vars
  PROVE  Flags'
  <1>1. CASE UNCHANGED vars \/ EnterWheel \/ DiesOfSend \/ Stop
    BY <1>1 DEF Flags, vars, network, wheel, EnterWheel, Fresh, DiesOfSend, SendKills, Stop
  <1>2. CASE Spin \/ Back
    <2>1. PICK m : Requests(m)
      BY <1>2 DEF Spin, Back
    <2>2. (connected' = connected \/ connected' = FALSE) /\ UNCHANGED <<serverOpen, stale>>
      BY <2>1, RequestMoves
    <2>3. left' \in BOOLEAN
      BY <1>2 DEF Spin, Back, SpinUnderWay
    <2>4. QED
      BY <1>2, <2>2, <2>3 DEF Spin, Back, Fresh, Flags
  <1>3. ASSUME NEW e, handleMessage(e) PROVE Flags'
    BY <1>3 DEF Flags, handleMessage, onSpinResponse, onBalanceResponse, SpinSucceeds, SpinFails, wheel
  <1>4. ASSUME NEW e, CallsGoneScreen(e) PROVE Flags'
    BY <1>4 DEF Flags, CallsGoneScreen, wheel
  <1>5. CASE spin \/ handleRequestBalance
    BY <1>5 DEF Flags, spin, handleRequestBalance, NotEnough, InternalError, Wins, Answer, wheel
  <1>6. CASE Network
    BY <1>6, NetworkMoves DEF Flags, wheel
  <1>7. ASSUME NEW d \in Loss, updateBalance(d) PROVE Flags'
    BY <1>7 DEF Flags, updateBalance, network, wheel
  <1>8. QED
    BY <1>1, <1>2, <1>3, <1>4, <1>5, <1>6, <1>7 DEF Next, consumeNetworkEvents

(* The wheel spins on its screen only.                                     *)
LEMMA ScreenStep ==
  ASSUME SpinsOnScreen, Queues, Numbers, [Next]_vars
  PROVE  SpinsOnScreen'
  <1>1. CASE UNCHANGED vars
    BY <1>1 DEF SpinsOnScreen, vars, wheel
  <1>2. CASE EnterWheel \/ Spin \/ Back \/ Stop
    BY <1>2 DEF SpinsOnScreen, EnterWheel, Spin, Back, Stop, Fresh, MayClick
  <1>3. CASE DiesOfSend \/ Network \/ \E d \in Loss : updateBalance(d)
    BY <1>3 DEF SpinsOnScreen, DiesOfSend, Network, updateBalance, wheel
  <1>4. ASSUME NEW e, handleMessage(e) PROVE SpinsOnScreen'
    <2>1. CASE onSpinResponse(e)
      BY <2>1 DEF SpinsOnScreen, onSpinResponse, SpinSucceeds, SpinFails, wheel
    <2>2. CASE UNCHANGED wheel
      BY <2>2 DEF SpinsOnScreen, wheel
    <2>3. QED
      BY <1>4, <2>1, <2>2 DEF handleMessage, onBalanceResponse
  <1>5. ASSUME NEW e, CallsGoneScreen(e) PROVE SpinsOnScreen'
    BY <1>5 DEF SpinsOnScreen, CallsGoneScreen, wheel
  <1>6. CASE spin \/ handleRequestBalance
    BY <1>6, ServerAnswers DEF SpinsOnScreen, wheel
  <1>7. QED
    BY <1>1, <1>2, <1>3, <1>4, <1>5, <1>6 DEF Next, consumeNetworkEvents

----------------------------------------------------------------------------
(* One spin, and the current one.                                          *)

(* Where there is no spin all the rest holds.                              *)
LEMMA NoSpin ==
  ASSUME NEW q, ~Has(q)
  PROVE  AtMostOne(q) /\ \A k : Own(q, k)
  BY DEF Has, AtMostOne, Own

(* A spin goes through the three queues once, and is the current one       *)
(* unless the wheel was left.                                              *)
LEMMA SpinStep ==
  ASSUME Queues, Numbers, SpinsOnScreen, OneOwnSpin, [Next]_vars
  PROVE  OneOwnSpin'
  <1> SUFFICES ASSUME ~left'
               PROVE  /\ OneSpin' /\ OwnSpins'
                      /\ SomeSpin' => waitingForServer' /\ screen' = "LuckyWheel"
                      /\ spinning' /\ hasServerResult' => targetOf' = spins'
    BY DEF OneOwnSpin
  <1>a. ~left => /\ OneSpin /\ OwnSpins
                 /\ SomeSpin => waitingForServer /\ screen = "LuckyWheel"
                 /\ spinning /\ hasServerResult => targetOf = spins
    BY DEF OneOwnSpin
  <1>1. CASE UNCHANGED <<toServer, toMe, events, wheel, spins, targetOf, left>>
    BY <1>1, <1>a DEF OneSpin, OwnSpins, SomeSpin, wheel
  <1>2. CASE UNCHANGED vars \/ DiesOfSend \/ \E d \in Loss : updateBalance(d)
    <2>1. UNCHANGED <<toServer, toMe, events, wheel, spins, targetOf, left>>
      BY <1>2 DEF vars, network, DiesOfSend, SendKills, updateBalance
    <2>2. QED
      BY <1>1, <2>1
  <1>3. CASE EnterWheel \/ Stop
    <2>1. /\ UNCHANGED <<toServer, toMe, events, spins, left>> /\ ~spinning'
          /\ \/ screen = "Lobby"
             \/ UNCHANGED <<waitingForServer, screen>>
      BY <1>3 DEF EnterWheel, Stop, Fresh, MayClick, network
    <2>2. QED
      BY <1>a, <2>1 DEF OneSpin, OwnSpins, SomeSpin
  <1>4. CASE Spin
    <2>1. ~SomeSpin
      BY <1>4, <1>a, SomeSpinIsUnderWay DEF Spin, MaySpin
    <2>2. /\ screen' = "LuckyWheel" /\ waitingForServer' /\ ~hasServerResult'
          /\ Requests([type |-> "SPIN", n |-> spins']) /\ spins' \in Nat
      BY <1>4 DEF Spin, MayClick, Numbers
    <2> DEFINE m == [type |-> "SPIN", n |-> spins']
    <2>3. m \in RequestMsg /\ m.n = spins'
      BY <2>2, RequestTypes
    <2>4. UNCHANGED <<toMe, events>> /\ toServer' \in {toServer, Append(toServer, m)}
      BY <2>2, RequestMoves
    <2>5. AtMostOne(Append(toServer, m)) /\ Own(Append(toServer, m), spins')
      BY <2>1, <2>3, EndOfQueue, NoSpin DEF Queues, SomeSpin
    <2>6. QED
      BY <2>1, <2>2, <2>4, <2>5, NoSpin DEF OneSpin, OwnSpins, SomeSpin
  <1>5. CASE Back
    <2>1. ~SomeSpin
      BY <1>5, SomeSpinIsUnderWay DEF Back
    <2>2. ~spinning' /\ Requests([type |-> "BALANCE"])
      BY <1>5 DEF Back, Fresh
    <2> DEFINE m == [type |-> "BALANCE"]
    <2>3. m \in RequestMsg /\ ~IsSpin(m)
      BY RequestTypes DEF IsSpin
    <2>4. UNCHANGED <<toMe, events>> /\ toServer' \in {toServer, Append(toServer, m)}
      BY <2>2, RequestMoves
    <2>5. ~Has(Append(toServer, m))
      BY <2>1, <2>3, EndOfQueue DEF Queues, SomeSpin
    <2>6. QED
      BY <2>1, <2>2, <2>4, <2>5, NoSpin DEF OneSpin, OwnSpins, SomeSpin
  <1>6. CASE consumeNetworkEvents
    <2>1. PICK e : handleMessage(e) \/ CallsGoneScreen(e)
      BY <1>6 DEF consumeNetworkEvents
    <2>2. /\ events # <<>> /\ e = Head(events) /\ events' = Tail(events)
          /\ UNCHANGED <<toServer, toMe, spins, left>>
      BY <2>1 DEF handleMessage, CallsGoneScreen, Pops
    <2>3. OneSpin /\ OwnSpins
      BY <1>a, <2>2
    <2>4. OneSpin' /\ OwnSpins' /\ (SomeSpin' => SomeSpin /\ ~IsSpin(e)) /\ (IsSpin(e) => e.n = spins)
      BY <2>2, <2>3, TailOfQueue DEF Queues, OneSpin, OwnSpins, SomeSpin
    <2>5. CASE IsSpin(e) /\ onSpinResponse(e)
      BY <1>a, <2>2, <2>4, <2>5 DEF onSpinResponse, SpinSucceeds, SpinFails, wheel
    <2>6. CASE UNCHANGED <<wheel, targetOf>>
      BY <1>a, <2>2, <2>4, <2>6 DEF wheel
    <2>7. QED
      BY <2>1, <2>5, <2>6 DEF handleMessage, CallsGoneScreen, onBalanceResponse, IsSpin
  <1>7. CASE spin \/ handleRequestBalance
    <2>1. /\ toServer # <<>> /\ toServer' = Tail(toServer)
          /\ UNCHANGED <<events, wheel, spins, targetOf, left>>
      BY <1>7, ServerAnswers
    <2>2. PICK m \in AnswerMsg : /\ toMe' = Append(toMe, m)
                                 /\ IsSpin(m) <=> IsSpin(Head(toServer))
                                 /\ IsSpin(m) => m.n = Head(toServer).n
      BY <1>7, ServerAnswers
    <2>3. OneSpin /\ OwnSpins
      BY <1>a, <2>1
    <2>4. /\ Has(toServer) <=> Has(toServer') \/ IsSpin(m)
          /\ AtMostOne(toServer') /\ (IsSpin(m) => ~Has(toServer'))
          /\ Own(toServer', spins) /\ (IsSpin(m) => m.n = spins)
      BY <2>1, <2>2, <2>3, TailOfQueue DEF Queues, OneSpin, OwnSpins
    <2>5. /\ Has(toMe') <=> Has(toMe) \/ IsSpin(m)
          /\ AtMostOne(toMe') /\ Own(toMe', spins)
      BY <2>2, <2>3, <2>4, EndOfQueue DEF Queues, OneSpin, OwnSpins
    <2>6. OneSpin' /\ OwnSpins' /\ (SomeSpin' => SomeSpin)
      BY <2>1, <2>3, <2>4, <2>5 DEF OneSpin, OwnSpins, SomeSpin
    <2>7. QED
      BY <1>a, <2>1, <2>6 DEF wheel
  <1>8. CASE Network
    <2>1. UNCHANGED <<wheel, spins, targetOf, left>> /\ (toServer' = toServer \/ toServer' = <<>>)
      BY <1>8, NetworkMoves
    <2>2. OneSpin /\ OwnSpins
      BY <1>a, <2>1
    <2>3. /\ Has(toServer') => Has(toServer)
          /\ AtMostOne(toServer') /\ Own(toServer', spins)
      BY <2>1, <2>2, EmptyQueue DEF OneSpin, OwnSpins
    <2>4. /\ AtMostOne(toMe') /\ Own(toMe', spins) /\ (Has(toMe') => Has(toMe))
          /\ AtMostOne(events') /\ Own(events', spins)
          /\ (Has(events') => (Has(events) \/ Has(toMe)))
          /\ Has(toMe') => ~Has(events')
      <3>1. CASE toMe' = toMe /\ events' = events
        BY <2>2, <3>1 DEF OneSpin, OwnSpins
      <3>2. CASE toMe' = toMe /\ events' = Append(events, DisconnectEvent)
        BY <2>2, <3>2, DisconnectIsNoSpin, EndOfQueue DEF Queues, OneSpin, OwnSpins
      <3>3. CASE toMe # <<>> /\ toMe' = Tail(toMe)
        <4>1. /\ Head(toMe) \in EventMsg
              /\ Has(toMe) <=> Has(toMe') \/ IsSpin(Head(toMe))
              /\ AtMostOne(toMe') /\ (IsSpin(Head(toMe)) => ~Has(toMe'))
              /\ Own(toMe', spins) /\ (IsSpin(Head(toMe)) => Head(toMe).n = spins)
          BY <2>2, <3>3, TailOfQueue, MessageFields DEF Queues, OneSpin, OwnSpins
        <4>2. CASE events' = events
          BY <2>2, <4>1, <4>2 DEF OneSpin, OwnSpins
        <4>3. ASSUME NEW m \in {DisconnectEvent, Head(toMe)}, events' = Append(events, m)
              PROVE  /\ AtMostOne(events') /\ Own(events', spins)
                     /\ Has(events') <=> Has(events) \/ IsSpin(m)
          BY <2>2, <4>1, <4>3, DisconnectIsNoSpin, EndOfQueue DEF Queues, OneSpin, OwnSpins
        <4>4. events' = events \/ \E m \in {DisconnectEvent, Head(toMe)} : events' = Append(events, m)
          BY <1>8, <3>3, NetworkMoves
        <4>5. QED
          BY <2>2, <4>1, <4>2, <4>3, <4>4, DisconnectIsNoSpin DEF OneSpin
      <3>4. QED
        BY <1>8, <3>1, <3>2, <3>3, NetworkMoves
    <2>5. OneSpin' /\ OwnSpins' /\ (SomeSpin' => SomeSpin)
      BY <2>1, <2>2, <2>3, <2>4 DEF OneSpin, OwnSpins, SomeSpin
    <2>6. QED
      BY <1>a, <2>1, <2>5 DEF wheel
  <1>9. QED
    BY <1>2, <1>3, <1>4, <1>5, <1>6, <1>7, <1>8 DEF Next

----------------------------------------------------------------------------
(* What the last answer with a balance says.                               *)

Alive == program = "runs" /\ connected /\ serverOpen

(* While the wheel spins nothing is asked after the spin.                  *)
SpinIsLast == Alive /\ spinning /\ toServer # <<>> => IsSpin(toServer[Len(toServer)])

Bears(m) == IsSpin(m) \/ (m.type = "BALANCE" /\ m.success)

Value(m) == IF IsSpin(m) THEN m.newBalance ELSE m.balance

NoneBears(q) == \A i \in 1..Len(q) : ~Bears(q[i])

(* It bears the balance b, in a spin's answer if the wheel spins.          *)
Good(m, b, s) == Bears(m) /\ Value(m) % Width = b % Width /\ (s => IsSpin(m))

LastIsGood(q, b, s) ==
  \E i \in 1..Len(q) : Good(q[i], b, s) /\ \A j \in 1..Len(q) : j > i => ~Bears(q[j])

HeldIsGood ==
  /\ sessionBalance % Width = balance % Width
  /\ spinning => pendingNewBalance % Width = balance % Width

BalanceReaches ==
  Alive /\ ~stale /\ ~Has(toServer) =>
    \/ LastIsGood(toMe, balance, spinning)
    \/ NoneBears(toMe) /\ LastIsGood(events, balance, spinning)
    \/ NoneBears(toMe) /\ NoneBears(events) /\ HeldIsGood

(* Taking the head of a queue takes the last balance only if it was the    *)
(* head's.                                                                 *)
LEMMA BearsOfTail ==
  ASSUME NEW S, NEW q \in Seq(S), q # <<>>, NEW b, NEW s
  PROVE  /\ NoneBears(q) => ~Bears(Head(q)) /\ NoneBears(Tail(q))
         /\ LastIsGood(q, b, s) =>
              LastIsGood(Tail(q), b, s) \/ (Good(Head(q), b, s) /\ NoneBears(Tail(q)))
  <1>1. /\ Len(q) \in Nat \ {0} /\ Head(q) = q[1] /\ Len(Tail(q)) = Len(q) - 1
        /\ \A i \in 1..Len(Tail(q)) : i + 1 \in 1..Len(q) /\ Tail(q)[i] = q[i + 1]
    BY EmptySeq, HeadTailProperties
  <1>2. NoneBears(q) => ~Bears(Head(q)) /\ NoneBears(Tail(q))
    BY <1>1 DEF NoneBears
  <1>3. ASSUME NEW i \in 1..Len(q), Good(q[i], b, s), \A j \in 1..Len(q) : j > i => ~Bears(q[j])
        PROVE  LastIsGood(Tail(q), b, s) \/ (Good(Head(q), b, s) /\ NoneBears(Tail(q)))
    <2>1. CASE i = 1
      <3>1. ASSUME NEW j \in 1..Len(Tail(q)) PROVE ~Bears(Tail(q)[j])
        BY <1>1, <1>3, <2>1
      <3>2. QED
        BY <1>1, <1>3, <2>1, <3>1 DEF NoneBears
    <2>2. CASE i # 1
      <3>1. i - 1 \in 1..Len(Tail(q)) /\ Tail(q)[i - 1] = q[i]
        BY <1>1, <2>2
      <3>2. ASSUME NEW j \in 1..Len(Tail(q)), j > i - 1 PROVE ~Bears(Tail(q)[j])
        <4>1. j + 1 \in 1..Len(q) /\ j + 1 > i /\ Tail(q)[j] = q[j + 1]
          BY <1>1, <3>2
        <4>2. QED
          BY <1>3, <4>1
      <3>3. QED
        BY <1>3, <3>1, <3>2 DEF LastIsGood
    <2>3. QED
      BY <2>1, <2>2
  <1>4. QED
    BY <1>2, <1>3 DEF LastIsGood

(* A message put behind the others has the last balance, if it bears one.  *)
LEMMA BearsOfEnd ==
  ASSUME NEW S, NEW q \in Seq(S), NEW m \in S, NEW b, NEW s
  PROVE  /\ NoneBears(q) /\ ~Bears(m) => NoneBears(Append(q, m))
         /\ Good(m, b, s) => LastIsGood(Append(q, m), b, s)
         /\ LastIsGood(q, b, s) /\ ~Bears(m) => LastIsGood(Append(q, m), b, s)
  <1> DEFINE r == Append(q, m)
  <1>1. /\ Len(q) \in Nat /\ Len(r) = Len(q) + 1 /\ r[Len(q) + 1] = m
        /\ \A i \in 1..Len(q) : i \in 1..Len(r) /\ r[i] = q[i]
    BY AppendProperties, LenProperties
  <1>2. \A i \in 1..Len(r) : (i \in 1..Len(q) /\ r[i] = q[i]) \/ (i = Len(q) + 1 /\ r[i] = m)
    BY <1>1
  <1>3. NoneBears(q) /\ ~Bears(m) => NoneBears(r)
    BY <1>2 DEF NoneBears
  <1>4. ASSUME Good(m, b, s) PROVE LastIsGood(r, b, s)
    <2>1. Len(r) \in 1..Len(r) /\ r[Len(r)] = m /\ \A j \in 1..Len(r) : ~(j > Len(r))
      BY <1>1
    <2>2. QED
      BY <1>4, <2>1 DEF LastIsGood
  <1>5. ASSUME NEW i \in 1..Len(q), Good(q[i], b, s), \A j \in 1..Len(q) : j > i => ~Bears(q[j]),
               ~Bears(m)
        PROVE  LastIsGood(r, b, s)
    <2>1. \A j \in 1..Len(r) : j > i => ~Bears(r[j])
      BY <1>2, <1>5
    <2>2. i \in 1..Len(r) /\ r[i] = q[i]
      BY <1>1
    <2>3. QED
      BY <1>5, <2>1, <2>2 DEF LastIsGood
  <1>6. QED
    BY <1>3, <1>4, <1>5 DEF LastIsGood

(* At rest less is asked of the answer.                                    *)
LEMMA GoodAtRest ==
  ASSUME NEW q, NEW b, NEW s, NEW t, t => s, LastIsGood(q, b, s)
  PROVE  LastIsGood(q, b, t)
  BY DEF LastIsGood, Good

----------------------------------------------------------------------------

(* While the connection lasts the network loses nothing.                   *)
LEMMA AliveMoves ==
  ASSUME Network, Alive'
  PROVE  /\ Alive /\ toServer' = toServer
         /\ \/ toMe' = toMe /\ (events' = events \/ events' = Append(events, DisconnectEvent))
            \/ toMe # <<>> /\ toMe' = Tail(toMe) /\ events' = Append(events, Head(toMe))
  <1>1. CASE closeConnection \/ ServerCrash
    BY <1>1 DEF closeConnection, ServerCrash, Alive
  <1>2. CASE isConnected
    BY <1>2 DEF isConnected, pushDisconnect, push, Alive
  <1>3. CASE receiveMessage
    BY <1>3 DEF receiveMessage, pushDisconnect, push, Alive
  <1>4. CASE receiveEOF
    BY <1>4 DEF receiveEOF, Alive
  <1>5. QED
    BY <1>1, <1>2, <1>3, <1>4 DEF Network, Receive

(* While the wheel spins, its spin remains the last request.               *)
LEMMA LastStep ==
  ASSUME Queues, Numbers, SpinIsLast, [Next]_vars
  PROVE  SpinIsLast'
  <1> SUFFICES ASSUME Alive', spinning', toServer' # <<>>
               PROVE  IsSpin(toServer'[Len(toServer')])
    BY DEF SpinIsLast
  <1>1. CASE Alive /\ spinning /\ toServer' = toServer
    BY <1>1 DEF SpinIsLast
  <1>2. CASE UNCHANGED vars \/ DiesOfSend \/ \E d \in Loss : updateBalance(d)
    BY <1>1, <1>2 DEF vars, network, wheel, DiesOfSend, SendKills, updateBalance, Alive
  <1>3. CASE EnterWheel \/ Stop \/ Back
    BY <1>3 DEF EnterWheel, Stop, Back, Fresh
  <1>4. CASE Spin
    <2> DEFINE m == [type |-> "SPIN", n |-> spins']
    <2>1. Requests(m) /\ m \in RequestMsg /\ IsSpin(m)
      BY <1>4, RequestTypes DEF Spin, Numbers, IsSpin
    <2>2. toServer' = Append(toServer, m)
      BY <2>1, RequestMoves DEF Alive
    <2>3. QED
      BY <2>1, <2>2, AppendProperties DEF Queues
  <1>5. CASE consumeNetworkEvents
    <2>1. PICK e : handleMessage(e) \/ CallsGoneScreen(e)
      BY <1>5 DEF consumeNetworkEvents
    <2>2. spinning /\ Alive /\ toServer' = toServer
      BY <2>1 DEF handleMessage, CallsGoneScreen, onSpinResponse, onBalanceResponse, SpinSucceeds,
                  SpinFails, wheel, Alive
    <2>3. QED
      BY <1>1, <2>2
  <1>6. CASE spin \/ handleRequestBalance
    <2>1. toServer # <<>> /\ toServer' = Tail(toServer) /\ spinning /\ Alive
      BY <1>6, ServerAnswers DEF wheel, Alive
    <2>2. toServer'[Len(toServer')] = toServer[Len(toServer)]
      <3>1. /\ Len(toServer) \in Nat /\ Len(Tail(toServer)) = Len(toServer) - 1
            /\ \A i \in 1..Len(Tail(toServer)) : Tail(toServer)[i] = toServer[i + 1]
            /\ Tail(toServer) # <<>> => Len(Tail(toServer)) # 0
        BY <2>1, HeadTailProperties, EmptySeq DEF Queues
      <3>2. QED
        BY <2>1, <3>1
    <2>3. QED
      BY <2>1, <2>2 DEF SpinIsLast
  <1>7. CASE Network
    <2>1. Alive /\ toServer' = toServer /\ spinning
      BY <1>7, AliveMoves, NetworkMoves DEF wheel
    <2>2. QED
      BY <1>1, <2>1
  <1>8. QED
    BY <1>2, <1>3, <1>4, <1>5, <1>6, <1>7 DEF Next

(* What the server's answer to the head of its queue says: it bears the    *)
(* row's balance, or the history is stale or as it was.                    *)
LEMMA AnswerIsGood ==
  ASSUME Queues, Numbers, ~stale', ~Has(toServer'), SpinIsLast, Alive, spin \/ handleRequestBalance
  PROVE  \E m \in AnswerMsg :
           /\ toMe' = Append(toMe, m)
           /\ \/ Good(m, balance', spinning)
              \/ ~Bears(m) /\ ~stale /\ ~Has(toServer) /\ balance' = balance
  <1> DEFINE h == Head(toServer)
  <1>0. Cost \in Nat /\ Reward \subseteq Nat /\ Width \in Nat \ {0}
    BY WheelAssumption
  <1>1. toServer # <<>> /\ h \in RequestMsg /\ toServer' = Tail(toServer)
    BY ServerAnswers
  <1>2. CASE spin
    <2>1. h.n \in Nat
      BY <1>1, <1>2, MessageFields DEF spin, Handles, IsSpin
    <2>2. \A s \in BOOLEAN, r \in Reward \cup {NoReward}, b \in Int :
            /\ SpinAnswer(s, r, b) \in AnswerMsg
            /\ Good(SpinAnswer(s, r, b), b, spinning)
      BY <2>1, AnswerTypes DEF SpinAnswer, Good, Bears, Value, IsSpin
    <2>3. CASE NotEnough
      <3>1. balance' = balance /\ balance \in Int /\ toMe' = Append(toMe, SpinAnswer(FALSE, NoReward, balance))
        BY <2>3 DEF NotEnough, Answer, Numbers
      <3>2. QED
        BY <2>2, <3>1
    <2>4. CASE InternalError
      <3>1. ~(balance # 0) /\ balance' = balance
        BY <2>4, Zenon DEF InternalError
      <3>2. toMe' = Append(toMe, SpinAnswer(FALSE, NoReward, 0))
        BY <2>4 DEF InternalError, Answer
      <3>3. 0 \in Int /\ FALSE \in BOOLEAN /\ NoReward \in Reward \cup {NoReward} /\ balance' = 0
        BY <3>1
      <3>4. QED
        BY <2>2, <3>2, <3>3, Zenon
    <2>5. ASSUME NEW r \in Reward, Wins(r)
          PROVE  \E m \in AnswerMsg : toMe' = Append(toMe, m) /\ Good(m, balance', spinning)
      <3>1. newBalance(r) \in Int /\ balance' = newBalance(r)
        <4>1. ~(balance' # balance - Cost + r)
          BY <2>5, Zenon DEF Wins
        <4>2. QED
          BY <1>0, <4>1 DEF newBalance, Numbers
      <3>2. toMe' = Append(toMe, SpinAnswer(TRUE, r, newBalance(r)))
        BY <2>5 DEF Wins, Answer
      <3>3. QED
        BY <2>2, <3>1, <3>2
    <2>6. QED
      BY <1>2, <2>3, <2>4, <2>5 DEF spin
  <1>3. CASE handleRequestBalance
    <2>1. PICK success \in BOOLEAN :
            /\ Answer([type |-> "BALANCE", success |-> success, balance |-> balance])
            /\ stale' = (stale /\ ~success)
      BY <1>3 DEF handleRequestBalance
    <2> DEFINE m == [type |-> "BALANCE", success |-> success, balance |-> balance]
    <2>2. m \in AnswerMsg /\ toMe' = Append(toMe, m) /\ balance' = balance
      BY <1>3, <2>1, AnswerTypes DEF handleRequestBalance, Answer, Numbers
    <2>3. ~IsSpin(h)
      BY <1>3 DEF handleRequestBalance, Handles, IsSpin
    <2>4. ~Has(toServer)
      BY <1>1, <2>3, TailOfQueue DEF Queues
    <2>5. ~spinning
      <3>1. Len(toServer) \in 1..Len(toServer)
        BY <1>1, EmptySeq DEF Queues
      <3>2. QED
        BY <1>1, <2>4, <3>1 DEF SpinIsLast, Has
    <2>6. CASE success
      <3>1. Good(m, balance, spinning)
        BY <2>5, <2>6 DEF Good, Bears, Value, IsSpin
      <3>2. QED
        BY <2>2, <3>1
    <2>7. CASE ~success
      <3>1. ~Bears(m) /\ ~stale
        BY <2>1, <2>7 DEF Bears, IsSpin
      <3>2. QED
        BY <2>2, <2>4, <3>1
    <2>8. QED
      BY <2>6, <2>7
  <1>4. QED
    BY <1>2, <1>3

(* The last balance under way, or else the one held, remains the row's.    *)
LEMMA BalanceStep ==
  ASSUME Queues, Numbers, SpinsOnScreen, SpinIsLast, BalanceReaches, [Next]_vars
  PROVE  BalanceReaches'
  <1> SUFFICES ASSUME Alive', ~stale', ~Has(toServer')
               PROVE  \/ LastIsGood(toMe', balance', spinning')
                      \/ NoneBears(toMe') /\ LastIsGood(events', balance', spinning')
                      \/ NoneBears(toMe') /\ NoneBears(events') /\ HeldIsGood'
    BY DEF BalanceReaches
  <1>0. Width \in Nat \ {0}
    BY WheelAssumption
  <1>a. Alive /\ ~stale /\ ~Has(toServer) =>
          \/ LastIsGood(toMe, balance, spinning)
          \/ NoneBears(toMe) /\ LastIsGood(events, balance, spinning)
          \/ NoneBears(toMe) /\ NoneBears(events) /\ HeldIsGood
    BY DEF BalanceReaches
  <1>1. CASE UNCHANGED vars \/ DiesOfSend \/ \E d \in Loss : updateBalance(d)
    <2>1. UNCHANGED <<toServer, toMe, events, balance, spinning, sessionBalance, pendingNewBalance>>
      BY <1>1 DEF vars, network, wheel, DiesOfSend, SendKills, updateBalance, Alive
    <2>2. UNCHANGED <<program, connected, serverOpen, stale>>
      <3>1. CASE UNCHANGED vars
        BY <3>1 DEF vars, network
      <3>2. CASE DiesOfSend \/ \E d \in Loss : updateBalance(d)
        BY <3>2 DEF DiesOfSend, SendKills, updateBalance, Alive
      <3>3. QED
        BY <1>1, <3>1, <3>2
    <2>3. Alive /\ ~stale
      BY <2>2 DEF Alive
    <2>4. QED
      BY <1>a, <2>1, <2>3 DEF HeldIsGood
  (* The wheel does not spin after these.                                  *)
  <1>2. CASE EnterWheel \/ Stop \/ Back
    <2>1. /\ UNCHANGED <<toMe, events, balance>> /\ ~spinning' /\ Alive /\ ~stale
          /\ sessionBalance' = sessionBalance \/ (spinning /\ sessionBalance' = pendingNewBalance)
      BY <1>2, RequestMoves DEF EnterWheel, Stop, Back, Fresh, network, Alive
    <2>2. ~Has(toServer)
      <3>1. CASE Back
        <4> DEFINE m == [type |-> "BALANCE"]
        <4>1. Requests(m) /\ m \in RequestMsg /\ ~IsSpin(m)
          BY <3>1, RequestTypes DEF Back, IsSpin
        <4>2. toServer' = toServer \/ toServer' = Append(toServer, m)
          BY <4>1, RequestMoves
        <4>3. QED
          BY <4>1, <4>2, EndOfQueue DEF Queues
      <3>2. QED
        BY <1>2, <3>1 DEF EnterWheel, Stop, network
    <2>3. HeldIsGood => HeldIsGood'
      BY <2>1 DEF HeldIsGood
    <2>4. QED
      BY <1>a, <2>1, <2>2, <2>3, GoodAtRest
  <1>3. CASE Spin
    <2> DEFINE m == [type |-> "SPIN", n |-> spins']
    <2>1. Requests(m) /\ m \in RequestMsg /\ IsSpin(m)
      BY <1>3, RequestTypes DEF Spin, Numbers, IsSpin
    <2>2. toServer' = Append(toServer, m)
      BY <2>1, RequestMoves DEF Alive
    <2>3. QED
      BY <2>1, <2>2, EndOfQueue DEF Queues
  <1>4. CASE consumeNetworkEvents
    <2>1. PICK e : handleMessage(e)
      BY <1>4 DEF consumeNetworkEvents, CallsGoneScreen, Alive
    <2>2. /\ events # <<>> /\ e = Head(events) /\ events' = Tail(events)
          /\ UNCHANGED <<toServer, toMe, balance>> /\ Alive /\ ~stale /\ (spinning' => spinning)
          /\ e \in EventMsg
      <3>1. /\ events # <<>> /\ e = Head(events) /\ events' = Tail(events)
            /\ UNCHANGED <<toServer, toMe, balance>> /\ Alive /\ ~stale
        BY <2>1 DEF handleMessage, Pops, Alive
      <3>2. spinning' => spinning
        BY <2>1 DEF handleMessage, onSpinResponse, onBalanceResponse, SpinSucceeds, SpinFails, wheel
      <3>3. QED
        BY <3>1, <3>2, HeadTailProperties DEF Queues
    <2>3. CASE LastIsGood(toMe, balance, spinning)
      BY <2>2, <2>3, GoodAtRest
    <2>4. CASE NoneBears(toMe) /\ LastIsGood(Tail(events), balance, spinning)
      BY <2>2, <2>4, GoodAtRest
    <2>5. CASE NoneBears(toMe) /\ Good(e, balance, spinning) /\ NoneBears(Tail(events))
      <3>1. CASE IsSpin(e)
        <4>1. sessionBalance' = e.newBalance /\ (callback = "set" => pendingNewBalance' = e.newBalance)
          BY <2>1, <3>1 DEF handleMessage, onSpinResponse, SpinSucceeds, SpinFails, IsSpin
        <4>2. spinning => callback = "set"
          BY DEF SpinsOnScreen
        <4>3. e.newBalance % Width = balance % Width
          BY <2>5, <3>1 DEF Good, Value
        <4>4. HeldIsGood'
          BY <2>2, <4>1, <4>2, <4>3 DEF HeldIsGood
        <4>5. QED
          BY <2>2, <2>5, <4>4
      <3>2. CASE e.type = "BALANCE" /\ e.success /\ ~IsSpin(e)
        <4>1. ~spinning /\ e.balance % Width = balance % Width /\ e.balance \in Int
          BY <2>2, <2>5, <3>2, MessageFields DEF Good, Value
        <4>2. sessionBalance' = e.balance % Width
          BY <2>1, <3>2 DEF handleMessage, onBalanceResponse, parseUint32Field
        <4>3. HeldIsGood'
          BY <1>0, <2>2, <4>1, <4>2, ModMod DEF HeldIsGood
        <4>4. QED
          BY <2>2, <2>5, <4>3
      <3>3. QED
        BY <2>5, <3>1, <3>2 DEF Good, Bears
    <2>6. CASE NoneBears(toMe) /\ NoneBears(events) /\ HeldIsGood
      <3>1. ~Bears(e) /\ NoneBears(Tail(events))
        BY <2>2, <2>6, BearsOfTail DEF Queues
      <3>2. UNCHANGED <<sessionBalance, wheel>>
        BY <2>1, <3>1 DEF handleMessage, onBalanceResponse, Bears, IsSpin
      <3>3. QED
        BY <2>2, <2>6, <3>1, <3>2 DEF HeldIsGood, wheel
    <2>7. LastIsGood(events, balance, spinning) =>
            LastIsGood(Tail(events), balance, spinning) \/ (Good(e, balance, spinning) /\ NoneBears(Tail(events)))
      BY <2>2, BearsOfTail DEF Queues
    <2>8. QED
      BY <1>a, <2>2, <2>3, <2>4, <2>5, <2>6, <2>7
  <1>5. CASE spin \/ handleRequestBalance
    <2>1. Alive /\ UNCHANGED <<events, wheel, sessionBalance>>
      BY <1>5, ServerAnswers DEF Alive
    <2>2. PICK m \in AnswerMsg :
            /\ toMe' = Append(toMe, m)
            /\ \/ Good(m, balance', spinning)
               \/ ~Bears(m) /\ ~stale /\ ~Has(toServer) /\ balance' = balance
      BY <1>5, <2>1, AnswerIsGood
    <2>3. QED
      BY <1>a, <2>1, <2>2, BearsOfEnd DEF Queues, HeldIsGood, wheel
  <1>6. CASE Network
    <2>1. Alive /\ toServer' = toServer /\ UNCHANGED <<balance, sessionBalance, wheel, stale>>
      BY <1>6, AliveMoves, NetworkMoves
    <2>2. CASE toMe' = toMe /\ events' = events
      BY <1>a, <2>1, <2>2 DEF HeldIsGood, wheel
    <2>3. CASE toMe' = toMe /\ events' = Append(events, DisconnectEvent)
      <3>1. DisconnectEvent \in EventMsg /\ ~Bears(DisconnectEvent)
        BY DisconnectIsNoSpin DEF Bears, DisconnectEvent
      <3>2. QED
        BY <1>a, <2>1, <2>3, <3>1, BearsOfEnd DEF Queues, HeldIsGood, wheel
    <2>4. CASE toMe # <<>> /\ toMe' = Tail(toMe) /\ events' = Append(events, Head(toMe))
      <3>1. Head(toMe) \in EventMsg
        BY <2>4, HeadTailProperties, MessageFields DEF Queues
      <3>2. /\ NoneBears(toMe) => ~Bears(Head(toMe)) /\ NoneBears(toMe')
            /\ LastIsGood(toMe, balance, spinning) =>
                 LastIsGood(toMe', balance, spinning) \/ (Good(Head(toMe), balance, spinning) /\ NoneBears(toMe'))
        BY <2>4, BearsOfTail DEF Queues
      <3>3. /\ NoneBears(events) /\ ~Bears(Head(toMe)) => NoneBears(events')
            /\ Good(Head(toMe), balance, spinning) => LastIsGood(events', balance, spinning)
            /\ LastIsGood(events, balance, spinning) /\ ~Bears(Head(toMe)) =>
                 LastIsGood(events', balance, spinning)
        BY <2>4, <3>1, BearsOfEnd DEF Queues
      <3>4. QED
        BY <1>a, <2>1, <3>2, <3>3 DEF HeldIsGood, wheel
    <2>5. QED
      BY <1>6, <2>2, <2>3, <2>4, AliveMoves
  <1>7. QED
    BY <1>1, <1>2, <1>3, <1>4, <1>5, <1>6 DEF Next

----------------------------------------------------------------------------

IInv == TypeOK /\ SpinsOnScreen /\ OneOwnSpin /\ SpinIsLast /\ BalanceReaches

(* The inductive invariant holds in every reachable state.                 *)
THEOREM Invariance == Spec => []IInv
  <1>1. Init => IInv
    <2>1. ASSUME Init PROVE IInv
      <3>1. toServer = <<>> /\ toMe = <<>> /\ events = <<>> /\ ~spinning /\ screen = "Lobby"
        BY <2>1 DEF Init, NetworkInit
      <3>2. SpinsOnScreen /\ SpinIsLast
        BY <3>1 DEF SpinsOnScreen, SpinIsLast
      <3>3. OneOwnSpin
        BY <3>1, EmptyQueue DEF OneOwnSpin, OneSpin, OwnSpins, SomeSpin
      <3>4. sessionBalance % Width = balance % Width
        <4>1. balance \in Int /\ Width \in Nat \ {0} /\ sessionBalance = balance % Width
          BY <2>1, WheelAssumption DEF Init
        <4>2. QED
          BY <4>1, ModMod
      <3>5. BalanceReaches
        BY <3>1, <3>4, EmptySeq DEF BalanceReaches, NoneBears, HeldIsGood
      <3>6. QED
        BY <2>1, <3>2, <3>3, <3>5, TypeInit DEF IInv
    <2>2. QED
      BY <2>1
  <1>2. IInv /\ [Next]_vars => IInv'
    BY QueuesStep, NumbersStep, FlagsStep, ScreenStep, SpinStep, LastStep, BalanceStep DEF IInv, TypeOK
  <1>3. QED
    BY <1>1, <1>2, PTL DEF Spec

(* The wheel turns to the reward of the spin it was started for, whatever  *)
(* answers are still under way (the button's callback, onSpinResponse).    *)
THEOREM OwnTarget == Spec => []TargetIsOwn
  <1>1. IInv => TargetIsOwn
    BY DEF IInv, OneOwnSpin, TargetIsOwn
  <1>2. QED
    BY <1>1, Invariance, PTL

(* With nothing under way and the wheel at rest the client holds the row's *)
(* balance (onSpinResponse, onBalanceResponse, update).                    *)
THEOREM HeldIsShown == Spec => []BalanceShown
  <1>1. ASSUME IInv, Alive, UnderWay = 0, ~spinning, ~stale
        PROVE  sessionBalance % Width = balance % Width
    <2>1. Len(toServer) = 0 /\ Len(toMe) = 0 /\ Len(events) = 0
      <3>1. Len(toServer) \in Nat /\ Len(toMe) \in Nat /\ Len(events) \in Nat
        BY <1>1, LenProperties DEF IInv, TypeOK, Queues
      <3>2. QED
        BY <1>1, <3>1 DEF UnderWay
    <2>2. ~Has(toServer) /\ ~LastIsGood(toMe, balance, spinning) /\ ~LastIsGood(events, balance, spinning)
      BY <2>1 DEF Has, LastIsGood
    <2>3. QED
      BY <1>1, <2>2 DEF IInv, BalanceReaches, HeldIsGood
  <1>2. IInv => BalanceShown
    BY <1>1 DEF BalanceShown, Alive
  <1>3. QED
    BY <1>2, Invariance, PTL
=============================================================================
