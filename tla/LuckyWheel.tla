------------------------------ MODULE LuckyWheel ------------------------------
(***************************************************************************)
(* One player's balance: the row of the table, which the server's wheel    *)
(* and settlements change, and the client's copy, which the answers of the *)
(* wheel, the wheel's animation and the lobby's request overwrite.         *)
(*                                                                         *)
(* The server handles one message at a time, so a spin's reading and       *)
(* writing of the row is one step.  Leaving the wheel destroys its screen  *)
(* and clears no callback.  The wheel's rewards are the rows the server    *)
(* draws from, by name; texts and angles are left out.                     *)
(***************************************************************************)
EXTENDS ClientNetwork, Integers, SequencesExt

CONSTANTS
  Cost,         (* SPIN_COST                                               *)
  Reward,       (* amounts, which name the rewards                         *)
  Width,        (* 2^32: what the client reads a balance in                *)
  Loss,         (* bound: what a hand may cost                             *)
  Starts,       (* bound: the balance at the login                         *)
  MaxSpins,     (* bound: clicks on the button                             *)
  MaxSettled,   (* bound: hands that are settled                           *)
  MaxUnderWay   (* bound: clicks come while fewer messages are under way   *)

ASSUME WheelAssumption ==
  /\ Cost \in Nat /\ Reward \subseteq Nat /\ Width \in Nat \ {0}
  /\ Loss \subseteq Nat /\ Starts \subseteq Int
  /\ MaxSpins \in Nat /\ MaxSettled \in Nat /\ MaxUnderWay \in Nat

VARIABLES
  balance,              (* of the row                                      *)
  sessionBalance,       (* ClientSession::balance_                         *)
  screen,               (* "Lobby" or "LuckyWheel"                         *)
  callback,             (* of the handler: "none", "set" or "gone"         *)
  spinning, waitingForServer, hasServerResult,
  pendingNewBalance, targetReward,
  spins,                (* number of clicks that spin the wheel            *)
  settled,              (* number of hands settled                         *)
  targetOf,             (* history: the spin the target was answered to    *)
  left,                 (* history: the wheel was left with a spin under
                           way, and there has been one ever since          *)
  stale                 (* history: the server's last answer with a balance
                           is not what the row holds                       *)

wheel == <<screen, callback, spinning, waitingForServer, hasServerResult,
           pendingNewBalance, targetReward>>
vars == <<network, balance, sessionBalance, wheel, spins, settled, targetOf, left, stale>>

NoReward == -1

(* A screen that has just been made.                                       *)
Fresh ==
  /\ spinning' = FALSE /\ waitingForServer' = FALSE /\ hasServerResult' = FALSE
  /\ pendingNewBalance' = 0 /\ targetReward' = NoReward /\ targetOf' = 0

Init ==
  /\ NetworkInit
  /\ balance \in Starts /\ sessionBalance = balance % Width
  /\ screen = "Lobby" /\ callback = "none"
  /\ spinning = FALSE /\ waitingForServer = FALSE /\ hasServerResult = FALSE
  /\ pendingNewBalance = 0 /\ targetReward = NoReward
  /\ spins = 0 /\ settled = 0
  /\ targetOf = 0 /\ left = FALSE /\ stale = FALSE

----------------------------------------------------------------------------
(* The user.                                                               *)

UnderWay == Len(toServer) + Len(toMe) + Len(events)

SpinUnderWay == \E m \in Range(toServer) \cup Range(toMe) \cup Range(events) : m.type = "SPIN"

MayClick(s) == program = "runs" /\ screen = s /\ UnderWay < MaxUnderWay

(* A request whose failure is only logged.                                 *)
Requests(m) ==
  /\ Sends(m) \/ SendFails
  /\ UNCHANGED <<toMe, serverOpen, events, balance, sessionBalance, settled, stale>>

EnterWheel ==
  /\ MayClick("Lobby")
  /\ screen' = "LuckyWheel" /\ callback' = "set" /\ Fresh
  /\ UNCHANGED <<network, balance, sessionBalance, spins, settled, left, stale>>

(* Wrong: the button spins the wheel that spins.                           *)
AlwaysReady == TRUE

MaySpin == ~spinning /\ ~waitingForServer

(* The wheel spins, whether or not the request is sent.                    *)
Spin ==
  /\ MayClick("LuckyWheel") /\ spins < MaxSpins
  /\ MaySpin
  /\ spinning' = TRUE /\ waitingForServer' = TRUE /\ hasServerResult' = FALSE
  /\ spins' = spins + 1
  /\ left' = (left /\ SpinUnderWay)
  /\ Requests([type |-> "SPIN", n |-> spins'])
  /\ UNCHANGED <<screen, callback, pendingNewBalance, targetReward, targetOf>>

(* Back, also while the wheel spins; the lobby asks for the balance.       *)
Back ==
  /\ MayClick("LuckyWheel")
  /\ screen' = "Lobby" /\ callback' = "gone" /\ Fresh
  /\ left' = (left \/ SpinUnderWay)
  /\ Requests([type |-> "BALANCE"])
  /\ UNCHANGED spins

(* A click that sends, after the server has gone.                          *)
DiesOfSend ==
  /\ MayClick("LuckyWheel")
  /\ SendKills
  /\ UNCHANGED <<toMe, serverOpen, events>>
  /\ UNCHANGED <<balance, sessionBalance, wheel, spins, settled, targetOf, left, stale>>

(* update: the wheel has come to the target.                               *)
Stop ==
  /\ program = "runs" /\ screen = "LuckyWheel" /\ spinning /\ hasServerResult
  /\ spinning' = FALSE /\ hasServerResult' = FALSE
  /\ sessionBalance' = pendingNewBalance
  /\ UNCHANGED <<network, balance, screen, callback, waitingForServer>>
  /\ UNCHANGED <<pendingNewBalance, targetReward, spins, settled, targetOf, left, stale>>

----------------------------------------------------------------------------
(* consumeNetworkEvents.                                                   *)

SpinFails(e) ==
  /\ spinning' = FALSE /\ waitingForServer' = FALSE /\ hasServerResult' = FALSE
  /\ pendingNewBalance' = e.newBalance
  /\ UNCHANGED <<screen, callback, targetReward, targetOf>>

SpinSucceeds(e) ==
  /\ waitingForServer' = FALSE /\ hasServerResult' = TRUE
  /\ pendingNewBalance' = e.newBalance
  /\ targetReward' = e.reward /\ targetOf' = e.n
  /\ UNCHANGED <<screen, callback, spinning>>

(* The callback of a screen that is gone does nothing visible.             *)
onSpinResponse(e) ==
  /\ sessionBalance' = e.newBalance
  /\ IF callback = "set"
     THEN IF e.success THEN SpinSucceeds(e) ELSE SpinFails(e)
     ELSE UNCHANGED <<wheel, targetOf>>

parseUint32Field(n) == n % Width

onBalanceResponse(e) ==
  /\ sessionBalance' = IF e.success THEN parseUint32Field(e.balance) ELSE sessionBalance
  /\ UNCHANGED <<wheel, targetOf>>

handleMessage(e) ==
  /\ Pops(e)
  /\ CASE e.type = "SPIN" -> onSpinResponse(e)
       [] e.type = "BALANCE" -> onBalanceResponse(e)
       [] OTHER -> UNCHANGED <<sessionBalance, wheel, targetOf>>
  /\ UNCHANGED <<toServer, toMe, serverOpen, connected, receiver, program>>
  /\ UNCHANGED <<balance, spins, settled, left, stale>>

(* Or it ends the program.                                                 *)
CallsGoneScreen(e) ==
  /\ callback = "gone" /\ e.type = "SPIN"
  /\ Pops(e)
  /\ program' = "over"
  /\ UNCHANGED <<toServer, toMe, serverOpen, connected, receiver>>
  /\ UNCHANGED <<balance, sessionBalance, wheel, spins, settled, targetOf, left, stale>>

consumeNetworkEvents == \E e \in Range(events) : handleMessage(e) \/ CallsGoneScreen(e)

----------------------------------------------------------------------------
(* The server.                                                             *)

Handles(type) == program # "over" /\ serverOpen /\ toServer # <<>> /\ Head(toServer).type = type

Answer(m) ==
  /\ toServer' = Tail(toServer)
  /\ toMe' = Append(toMe, m)
  /\ UNCHANGED <<serverOpen, connected, receiver, events, program>>
  /\ UNCHANGED <<sessionBalance, wheel, spins, settled, targetOf, left>>

SpinAnswer(success, reward, b) ==
  [type |-> "SPIN", n |-> Head(toServer).n, success |-> success, reward |-> reward, newBalance |-> b]

(* Wrong: the answer holds the balance that was read.                      *)
oldBalance(reward) == balance

newBalance(reward) == balance - Cost + reward

NotEnough ==
  /\ balance < Cost
  /\ Answer(SpinAnswer(FALSE, NoReward, balance))
  /\ stale' = FALSE
  /\ UNCHANGED balance

(* Whether or not the UPDATE fails.                                        *)
Wins(reward) ==
  /\ balance >= Cost
  /\ balance' \in {balance, balance - Cost + reward}
  /\ Answer(SpinAnswer(TRUE, reward, newBalance(reward)))
  /\ stale' = (balance' # balance - Cost + reward)

(* A query has failed.                                                     *)
InternalError ==
  /\ Answer(SpinAnswer(FALSE, NoReward, 0))
  /\ stale' = (balance # 0)
  /\ UNCHANGED balance

spin ==
  /\ Handles("SPIN")
  /\ NotEnough \/ InternalError \/ \E r \in Reward : Wins(r)

handleRequestBalance ==
  /\ Handles("BALANCE")
  /\ \E success \in BOOLEAN :
       /\ Answer([type |-> "BALANCE", success |-> success, balance |-> balance])
       /\ stale' = (stale /\ ~success)
  /\ UNCHANGED balance

(* A hand the player was dealt into ends: a relative UPDATE.               *)
updateBalance(loss) ==
  /\ program # "over" /\ serverOpen /\ settled < MaxSettled
  /\ balance' = balance - loss /\ settled' = settled + 1
  /\ stale' = TRUE
  /\ UNCHANGED <<network, sessionBalance, wheel, spins, targetOf, left>>

Network ==
  /\ program # "over"
  /\ closeConnection \/ ServerCrash \/ Receive
  /\ UNCHANGED <<balance, sessionBalance, wheel, spins, settled, targetOf, left, stale>>

----------------------------------------------------------------------------

Next ==
  \/ EnterWheel \/ Spin \/ Back \/ DiesOfSend \/ Stop
  \/ consumeNetworkEvents
  \/ spin \/ handleRequestBalance \/ Network
  \/ \E d \in Loss : updateBalance(d)

Spec == Init /\ [][Next]_vars

----------------------------------------------------------------------------
(* Properties.                                                             *)

(* When nothing is under way and the wheel is at rest, the client's        *)
(* balance is the row's, up to the width it is read in, however spins,     *)
(* settlements, requests and the end of the animation have interleaved,    *)
(* unless the row has changed or the server has failed since its last      *)
(* answer (onSpinResponse, onBalanceResponse, update).                     *)
BalanceShown ==
  program = "runs" /\ connected /\ serverOpen /\ UnderWay = 0 /\ ~spinning /\ ~stale
    => sessionBalance % Width = balance % Width

(* The wheel turns to the reward of the spin it was started for, and not   *)
(* of an earlier one, unless it was left with a spin under way and there   *)
(* has been one ever since (the button's callback, onEnter).               *)
TargetIsOwn == spinning /\ hasServerResult => targetOf = spins \/ left
=============================================================================
