----------------------------- MODULE SamLocGame -----------------------------
(***************************************************************************)
(* One room's game: class SamLocGame together with the two places of       *)
(* GameHandler that destroy the object when its last seat is given up.  A  *)
(* method runs to completion in the single poll thread of the server, so   *)
(* every method is one atomic action; what interleaves is the order of the *)
(* calls that the clients' messages, broken connections and the update     *)
(* loop make.                                                              *)
(*                                                                         *)
(* The room is in memory, the balances are in the database: the process    *)
(* may end at any moment, each UPDATE of a balance may fail, and other     *)
(* rooms and the wheel change the same balances.                           *)
(*                                                                         *)
(* Left out: player names, the JSON of the events, log lines, the cached   *)
(* Player::balance (display only; `wallet` is the players table), the game *)
(* id, and the value BIDDING of GameState, which nothing assigns.  Time is *)
(* abstract: the countdown and the turn timer may expire at any moment.    *)
(***************************************************************************)
EXTENDS SamLocRules, Sequences, FiniteSetsExt

CONSTANTS
  Player,         (* user ids that may come to this room                   *)
  NoPlayer,       (* the id -1                                             *)
  MaxPlayers,     (* DBRoom::maxPlayers; every room is created with 4       *)
  HandSize,       (* cards dealt to each seat; 10 in the code              *)
  RoomType,       (* DBRoom::type                                          *)
  Bet,            (* DBRoom::betAmount                                     *)
  InitialBalance, (* players.balance before the first game                 *)
  OtherAmounts,   (* what a balance changes by in other rooms and the wheel *)
  MaxElsewhere,   (* bound of the model: on `elsewhere`                    *)
  MaxMoney        (* bound of the model: on the balances together, for what *)
                  (* adds to them                                          *)

ASSUME GameAssumption ==
  /\ IsFiniteSet(Player)
  /\ NoPlayer \notin Player
  /\ MaxPlayers \in 2..4
  /\ HandSize \in 1..10
  /\ RoomType \in {"dem_la", "dat_cuoc"}
  /\ Bet \in Nat
  /\ InitialBalance \in [Player -> Nat]
  /\ OtherAmounts \subseteq Int
  /\ MaxElsewhere \in Nat
  /\ MaxMoney \in Nat

VARIABLES
  seats,              (* the ids of vector `players`, in its order         *)
  isReady,            (* seated players with the flag set                  *)
  hasPassed,          (* seated players with the flag set                  *)
  isDisconnected,     (* seated players with the flag set                  *)
  hand,               (* cards of each player; {} without a seat           *)
  state,              (* GameState                                         *)
  currentPlayerIndex, (* counted from 0, -1 for nobody                     *)
  lastTurnOwnerId,
  boardCards,
  startingScheduled,
  lockedForJoin,
  wallet,             (* table players, column balance                     *)
  unsettled,          (* history: dealt into the last hand, and no UPDATE  *)
                      (* for it has taken effect                           *)
  refused,            (* history: whose UPDATE for the last hand has failed *)
  elsewhere           (* history: what the balance has changed by outside  *)
                      (* this room since the player took a seat here       *)

flags     == <<isReady, hasPassed, isDisconnected>>
turnVars  == <<currentPlayerIndex, lastTurnOwnerId, boardCards>>
phaseVars == <<state, startingScheduled, lockedForJoin>>
roomVars  == <<seats, flags, hand, turnVars, phaseVars>>
moneyVars == <<wallet, unsettled, refused, elsewhere>>
vars == <<roomVars, moneyVars>>

Seated == {seats[i] : i \in 1..Len(seats)}
Active == Seated \ isDisconnected

(* players[i], counted from 0 *)
SeatAt(i) == seats[i + 1]

(* currentPlayerIndex designates an element of the vector.                 *)
InRange == currentPlayerIndex \in 0..(Len(seats) - 1)

(* players[currentPlayerIndex].id == p.  Beyond the end of the vector the  *)
(* comparison reads an erased element and may come out either way.         *)
MayHoldTurn(p) == InRange => SeatAt(currentPlayerIndex) = p
HoldsTurn(p)   == InRange /\ SeatAt(currentPlayerIndex) = p

isJoinAllowed == ~lockedForJoin /\ state = "WAITING"

(* Wrong: the stake alone, which forgets the extra bet for leaving.        *)
minRequiredOneBet == Bet

minRequired == IF RoomType = "dem_la" THEN 15 * Bet ELSE 2 * Bet

----------------------------------------------------------------------------
(* An object that has just been constructed.                               *)
Init ==
  /\ seats = <<>>
  /\ isReady = {} /\ hasPassed = {} /\ isDisconnected = {}
  /\ hand = [p \in Player |-> {}]
  /\ state = "WAITING" /\ startingScheduled = FALSE /\ lockedForJoin = FALSE
  /\ currentPlayerIndex = -1 /\ lastTurnOwnerId = NoPlayer /\ boardCards = {}
  /\ wallet = InitialBalance
  /\ unsettled = {} /\ refused = {}
  /\ elsewhere = [p \in Player |-> 0]

(* Every seat is given up and the object is left in state `st`: by         *)
(* handleWin, and by games.erase, after which a join constructs a new one. *)
ClearTable(st) ==
  /\ seats' = <<>>
  /\ isReady' = {} /\ hasPassed' = {} /\ isDisconnected' = {}
  /\ hand' = [p \in Player |-> {}]
  /\ state' = st /\ startingScheduled' = FALSE /\ lockedForJoin' = FALSE
  /\ currentPlayerIndex' = -1 /\ lastTurnOwnerId' = NoPlayer /\ boardCards' = {}

----------------------------------------------------------------------------
(* Taking and giving up a seat.                                            *)

(* The checks of C_JOIN_ROOM and of addPlayer; a refused join changes      *)
(* nothing here.                                                           *)
addPlayer(p) ==
  /\ p \notin Seated
  /\ Len(seats) < MaxPlayers
  /\ isJoinAllowed
  /\ wallet[p] >= minRequired
  /\ seats' = Append(seats, p)
  /\ elsewhere' = [elsewhere EXCEPT ![p] = 0]
  /\ UNCHANGED <<flags, hand, turnVars, phaseVars, wallet, unsettled, refused>>

(* The vector without the element of p.                                    *)
SeatsWithout(p) ==
  LET i == CHOOSE k \in 1..Len(seats) : seats[k] = p
  IN  [k \in 1..(Len(seats) - 1) |-> IF k < i THEN seats[k] ELSE seats[k + 1]]

(* In every state of the game, a running hand included.  The turn, its     *)
(* owner and the table are not adjusted.                                   *)
removePlayer(p) ==
  /\ \/ /\ Seated \ {p} = {}
        /\ ClearTable("WAITING")
     \/ /\ p \in Seated
        /\ Seated # {p}
        /\ seats' = SeatsWithout(p)
        /\ isReady' = isReady \ {p}
        /\ hasPassed' = hasPassed \ {p}
        /\ isDisconnected' = isDisconnected \ {p}
        /\ hand' = [hand EXCEPT ![p] = {}]
        /\ startingScheduled' = FALSE
        /\ UNCHANGED <<state, lockedForJoin, turnVars>>
  /\ UNCHANGED moneyVars

(* Wrong: a single player would start alone.                               *)
AllReadyEvenAlone(ready) == ready = Seated

AllReady(ready) == Len(seats) >= 2 /\ ready = Seated

(* A mapped user without a seat may send it too: it takes the room out of  *)
(* FINISHED all the same.                                                  *)
setPlayerReady(p, ready) ==
  /\ state \in {"WAITING", "FINISHED"}
  /\ state' = "WAITING"
  /\ isReady' = IF p \notin Seated THEN isReady
                ELSE IF ready THEN isReady \cup {p} ELSE isReady \ {p}
  /\ startingScheduled' = AllReady(isReady')
  /\ UNCHANGED <<seats, hasPassed, isDisconnected, hand, turnVars,
                 lockedForJoin, moneyVars>>

----------------------------------------------------------------------------
(* A hand: dealing, moves and the end.                                     *)

(* Wrong: a deck that may run out.                                         *)
ShortHands == {cards \in SUBSET Card : Cardinality(cards) <= HandSize}

HandsOfCards == {cards \in SUBSET Card : Cardinality(cards) = HandSize}

(* Wrong: every hand from the top of the same deck.                        *)
DealsFromTheTop(players) == [players -> HandsOfCards]

(* What a shuffle and the deal from the top of the deck can give.          *)
Deals(players) ==
  {deal \in [players -> HandsOfCards] :
     \A p, q \in players : p # q => deal[p] \cap deal[q] = {}}

(* Wrong: counted from 1.                                                  *)
FirstCountedFromOne == {i \in 1..Len(seats) : seats[i] \in Active}

(* The seats that pickFirstPlayerId draws from.                            *)
FirstSeats == {i \in 0..(Len(seats) - 1) : SeatAt(i) \in Active}

(* update() once GAME_READY_DELAY_SECONDS have passed.  The deck is large  *)
(* enough for every seat.                                                  *)
startPlayingPhase ==
  /\ state = "WAITING"
  /\ startingScheduled
  /\ \E first \in FirstSeats, deal \in Deals(Seated) :
       /\ currentPlayerIndex' = first
       /\ hand' = [p \in Player |-> IF p \in Seated THEN deal[p] ELSE {}]
  /\ state' = "PLAYING"
  /\ startingScheduled' = FALSE
  /\ lockedForJoin' = TRUE
  /\ isReady' = {}
  /\ hasPassed' = {}
  /\ lastTurnOwnerId' = NoPlayer
  /\ boardCards' = {}
  /\ unsettled' = Seated
  /\ refused' = {}
  /\ UNCHANGED <<seats, isDisconnected, wallet, elsewhere>>

(* Wrong: only the disconnected are skipped.                               *)
SkipsOnlyGone(i, passed, gone) == SeatAt(i) \in gone

Skips(i, passed, gone) == SeatAt(i) \in passed \cup gone

(* Wrong: the combination stays on the table.                              *)
NewTrickKeepsBoard(passed, gone) ==
  hasPassed' = passed \cap gone /\ lastTurnOwnerId' = NoPlayer /\ UNCHANGED boardCards

(* Wrong: the disconnected are taken into the trick again.                 *)
NewTrickForAll(passed, gone) ==
  hasPassed' = {} /\ lastTurnOwnerId' = NoPlayer /\ boardCards' = {}

NewTrick(passed, gone) ==
  hasPassed' = passed \cap gone /\ lastTurnOwnerId' = NoPlayer /\ boardCards' = {}

(* nextTurnIndex, called with the flags, the owner and the table as its    *)
(* caller left them: the turn goes to the first seat after the current one *)
(* that is still in the trick.  When nobody is found before the walk is    *)
(* back where it began, or the owner of the trick is found, a new trick    *)
(* begins; in the first case with the first connected seat.                *)
nextTurnIndex(passed, gone, owner, board) ==
  LET n        == Len(seats)
      After(k) == (currentPlayerIndex + k) % n
      Out(k)   == Skips(After(k), passed, gone)
  IN  \E loop \in 1..n :
        /\ \A k \in 1..(loop - 1) : Out(k)
        /\ loop = n \/ ~Out(loop)
        /\ \/ /\ loop < n /\ SeatAt(After(loop)) # owner
              /\ currentPlayerIndex' = After(loop)
              /\ hasPassed' = passed
              /\ lastTurnOwnerId' = owner
              /\ boardCards' = board
           \/ /\ loop = n \/ SeatAt(After(loop)) = owner
              /\ NewTrick(passed, gone)
              /\ \/ loop < n /\ currentPlayerIndex' = After(loop)
                 \/ /\ loop = n
                    /\ Seated \subseteq gone
                    /\ currentPlayerIndex' = After(n)
                 \/ /\ loop = n
                    /\ currentPlayerIndex' \in 0..(n - 1)
                    /\ SeatAt(currentPlayerIndex') \notin gone
                    /\ \A j \in 0..(currentPlayerIndex' - 1) : SeatAt(j) \in gone

(* Wrong: whoever is disconnected is spared.                               *)
LossSparesTheGone(p, reason, gone) == IF p \in gone THEN 0 ELSE Bet

(* What p owes when the hand ends: by cards left or a flat bet, and one    *)
(* more bet for having disconnected if that is what ended the hand.        *)
Loss(p, reason, gone) ==
  (IF RoomType = "dem_la" THEN Cardinality(hand[p]) * Bet ELSE Bet)
    + (IF reason = 2 /\ p \in gone THEN Bet ELSE 0)

Due(i, winner, reason, gone) ==
  IF i < Len(seats) /\ SeatAt(i) # winner THEN Loss(SeatAt(i), reason, gone) ELSE 0

(* Wrong: the winner is paid first.                                        *)
ReachedWinnerFirst(winner) ==
  {{winner} \cup {seats[i] : i \in 1..k} : k \in 0..Len(seats)}

(* Whom the UPDATEs of handleWin have reached when the process ends in the *)
(* middle: the losers come in the order of the vector, the winner last.    *)
Reached(winner) ==
  {{seats[i] : i \in 1..k} \ {winner} : k \in 0..Len(seats)}

Total(balance) == MapThenSumSet(LAMBDA p : balance[p], Player)

(* The settlement of handleWin: every other seat pays the winner, with an  *)
(* UPDATE of its own for each seat; those of `booked` take effect.  The    *)
(* winner's amount does not depend on that.  The loop over the seats is    *)
(* written out for the four a room may have.                               *)
SettleHand(winner, reason, gone, booked) ==
  LET pool == Due(0, winner, reason, gone) + Due(1, winner, reason, gone)
                + Due(2, winner, reason, gone) + Due(3, winner, reason, gone)
  IN  /\ wallet' = [p \in Player |->
           IF p \notin booked THEN wallet[p]
           ELSE IF p = winner THEN wallet[p] + pool
           ELSE wallet[p] - Loss(p, reason, gone)]
      /\ unsettled' = unsettled \ booked
      /\ UNCHANGED elsewhere

(* handleWin, after which the object is left in state `st`.  An UPDATE may *)
(* fail, which nobody notices; and the process may end after some of them, *)
(* which ends the room.                                                    *)
handleWin(winner, reason, gone, st) ==
  \E reached \in {Seated} \cup Reached(winner) :
    \E booked \in SUBSET reached :
      /\ SettleHand(winner, reason, gone, booked)
      /\ refused' = reached \ booked
      /\ refused' # {} => Total(wallet') <= MaxMoney
      /\ ClearTable(IF winner \in reached THEN st ELSE "WAITING")

(* playCards; an invalid combination is answered and changes nothing.      *)
playCards(p, cards) ==
  /\ state = "PLAYING"
  /\ HoldsTurn(p)
  /\ cards \subseteq hand[p]
  /\ canBeat(cards, boardCards)
  /\ \/ /\ cards = hand[p]
        /\ handleWin(p, 1, isDisconnected, "FINISHED")
     \/ /\ cards # hand[p]
        /\ hand' = [hand EXCEPT ![p] = @ \ cards]
        /\ nextTurnIndex(hasPassed, isDisconnected, p, cards)
        /\ UNCHANGED <<seats, isReady, isDisconnected, phaseVars, moneyVars>>

(* The flag is set at the index: in an erased element when the index is    *)
(* beyond the end.                                                         *)
PassedAtIndex ==
  IF InRange THEN hasPassed \cup {SeatAt(currentPlayerIndex)} ELSE hasPassed

passTurn(p) ==
  /\ state = "PLAYING"
  /\ currentPlayerIndex >= 0
  /\ MayHoldTurn(p)
  /\ nextTurnIndex(PassedAtIndex, isDisconnected, lastTurnOwnerId, boardCards)
  /\ UNCHANGED <<seats, isReady, isDisconnected, hand, phaseVars, moneyVars>>

(* Wrong: checks the index, and so never frees a turn that was lost.       *)
TurnTimeoutInRange == InRange /\ \E p \in Player : passTurn(p)

(* update() once GAME_TURN_TIMEOUT_SECONDS have passed: a pass in the name *)
(* of whoever the index designates.                                        *)
TurnTimeout == \E p \in Player : passTurn(p)

(* Wrong: the player who has just gone is still counted.                   *)
countActiveTooEarly(gone) == Cardinality(Active)

countActivePlayers(gone) == Cardinality(Seated \ gone)

(* The connection of p breaks.  Between hands the seat is given up.  In a  *)
(* hand it is kept; when a single connected player is left, that player    *)
(* wins and the emptied game is erased.                                    *)
onPlayerDisconnect(p) ==
  LET gone == isDisconnected \cup {p}
      passed == hasPassed \cup {p}
  IN  \/ state \in {"WAITING", "FINISHED"} /\ removePlayer(p)
      \/ /\ state = "PLAYING"
         /\ p \in Active
         /\ countActivePlayers(gone) = 1
         /\ \E winner \in Active \ {p} : handleWin(winner, 2, gone, "WAITING")
      \/ /\ state = "PLAYING"
         /\ p \in Active
         /\ countActivePlayers(gone) # 1
         /\ isDisconnected' = gone
         /\ \/ /\ MayHoldTurn(p)
               /\ nextTurnIndex(passed, gone, lastTurnOwnerId, boardCards)
            \/ /\ ~HoldsTurn(p)
               /\ hasPassed' = passed
               /\ UNCHANGED turnVars
         /\ UNCHANGED <<seats, isReady, hand, phaseVars, moneyVars>>

----------------------------------------------------------------------------
(* The balance of p changes outside this room: by the wheel, or by the     *)
(* settlement of another room, which p may have joined before or during    *)
(* the hand here.  The other room has checked the balance on its own, so   *)
(* nothing keeps what is taken within what is there.                       *)
PlayElsewhere(p) ==
  \E amount \in OtherAmounts :
    /\ elsewhere[p] + amount \in -MaxElsewhere..MaxElsewhere
    /\ amount > 0 => Total(wallet) + amount <= MaxMoney
    /\ wallet' = [wallet EXCEPT ![p] = @ + amount]
    /\ elsewhere' = [elsewhere EXCEPT ![p] = @ + amount]
    /\ UNCHANGED <<roomVars, unsettled, refused>>

(* The process ends between two calls; the next one has no rooms.          *)
Crash ==
  /\ ClearTable("WAITING")
  /\ UNCHANGED moneyVars

Next ==
  \/ \E p \in Player :
       \/ addPlayer(p)
       \/ removePlayer(p)
       \/ onPlayerDisconnect(p)
       \/ \E ready \in BOOLEAN : setPlayerReady(p, ready)
       \/ \E cards \in SUBSET hand[p] : playCards(p, cards)
       \/ passTurn(p)
       \/ PlayElsewhere(p)
  \/ startPlayingPhase
  \/ TurnTimeout
  \/ Crash

Spec == Init /\ [][Next]_vars

(* main() calls GameHandler::updateLoop in every round of its poll loop.   *)
Fairness == WF_vars(startPlayingPhase) /\ WF_vars(TurnTimeout)

FairSpec == Spec /\ Fairness
----------------------------------------------------------------------------
(* Properties.                                                             *)

TypeOK ==
  /\ seats \in Seq(Player) /\ Len(seats) <= MaxPlayers
  /\ isReady \subseteq Player
  /\ hasPassed \subseteq Player
  /\ isDisconnected \subseteq Player
  /\ hand \in [Player -> SUBSET Card]
  /\ state \in {"WAITING", "PLAYING", "FINISHED"}
  /\ currentPlayerIndex \in -1..(MaxPlayers - 1)
  /\ lastTurnOwnerId \in Player \cup {NoPlayer}
  /\ boardCards \subseteq Card
  /\ startingScheduled \in BOOLEAN
  /\ lockedForJoin \in BOOLEAN
  /\ wallet \in [Player -> Int]
  /\ unsettled \subseteq Player
  /\ refused \subseteq Player
  /\ elsewhere \in [Player -> Int]

(* Players of the running hand who have given up their seat.               *)
Departed == unsettled \ Seated

(* No card is in two hands, or in a hand and on the table, and only seated *)
(* players hold cards: through deals, plays, departures and settlements    *)
(* (startPlayingPhase, playCards, removePlayer, handleWin).                *)
NoCardTwice ==
  \A p \in Player :
    /\ p \notin Seated => hand[p] = {}
    /\ hand[p] \cap boardCards = {}
    /\ \A q \in Player \ {p} : hand[p] \cap hand[q] = {}

(* While no seat of the hand has been given up, the turn designates a seat *)
(* whose player is connected and still in the trick, so no turn is wasted  *)
(* on somebody nextTurnIndex and onPlayerDisconnect should have skipped.   *)
TurnHolderCanMove ==
  state = "PLAYING" /\ Departed = {} =>
    /\ InRange
    /\ SeatAt(currentPlayerIndex) \in Active \ hasPassed

(* The table has cards exactly while the trick has an owner, and nobody is *)
(* asked to beat the own combination: when the turn comes back to the      *)
(* owner the trick is over (nextTurnIndex).                                *)
OwnerIsNotAsked ==
  /\ boardCards = {} <=> lastTurnOwnerId = NoPlayer
  /\ state = "PLAYING" /\ Departed = {} /\ boardCards # {} =>
       SeatAt(currentPlayerIndex) # lastTurnOwnerId

(* A running hand has no seat without cards: the play that empties a hand  *)
(* ends the game in the same step (playCards, handleWin).                  *)
NobodyPlaysWithoutCards ==
  state = "PLAYING" => \A p \in Seated : hand[p] # {}

(* While no seat has been given up, a running hand has two connected       *)
(* players: the disconnection that leaves one alone ends it                *)
(* (onPlayerDisconnect).                                                   *)
HandHasOpponents ==
  state = "PLAYING" /\ Departed = {} => Cardinality(Active) >= 2

(* A countdown runs only over an open room with two or more seats that can *)
(* be dealt cards; leaving and withdrawing the ready flag stop it          *)
(* (setPlayerReady, removePlayer).                                         *)
CountdownHasPlayers ==
  startingScheduled =>
    state = "WAITING" /\ ~lockedForJoin /\ Len(seats) >= 2 /\ isDisconnected = {}

(* A hand moves money from its losers to its winner and makes none.  When  *)
(* the process ends in the middle of the settlement some may be lost, but  *)
(* none is gained, since the winner is paid last; it takes a failed UPDATE *)
(* to gain any (handleWin).                                                *)
MoneyIsConserved ==
  [][state = "PLAYING" /\ state' # "PLAYING" /\ refused' = {} =>
       /\ Total(wallet') <= Total(wallet)
       /\ unsettled' \cap Seated = {} => Total(wallet') = Total(wallet)]_vars

(* The balance that addPlayer asks for covers the worst hand: a balance is *)
(* below zero by no more than the player has lost in other rooms and at    *)
(* the wheel since taking the seat, which nothing reserves (addPlayer,     *)
(* handleWin).                                                             *)
NobodyIsOverdrawn == \A p \in Player : wallet[p] - elsewhere[p] >= 0

(* When a hand of several seats is over, all of them but one have paid at  *)
(* least the bet, disconnected players included, unless their own UPDATE   *)
(* has failed or was not reached (handleWin).  So the code, and not        *)
(* doc.txt 114-122, where the second pays nothing.                         *)
EverySeatedLoserPays ==
  [][state = "PLAYING" /\ state' # "PLAYING" /\ Cardinality(Seated) >= 2 =>
       \E winner \in Seated : \A p \in Seated \ ({winner} \cup unsettled') :
         wallet'[p] <= wallet[p] - Bet]_vars

(* The order of turns and the end of tricks are those of TurnOrder, by     *)
(* whatever indices and loops nextTurnIndex and its callers realise them.  *)
Turns == INSTANCE TurnOrder WITH
  playing <- state = "PLAYING",
  passed  <- hasPassed,
  gone    <- isDisconnected,
  turn    <- IF state = "PLAYING" /\ InRange THEN SeatAt(currentPlayerIndex)
             ELSE NoPlayer,
  owner   <- lastTurnOwnerId

ImplementsTurnOrder == Turns!Spec

(* The timer of update() is what makes the order of turns go on.           *)
ImplementsFairTurnOrder == Turns!FairSpec

(* How far p is from the next turn, counted so that no step of the hand    *)
(* adds to it.  In the trick, p waits for the seats in between; after a    *)
(* pass, for the trick to end: at most so many stronger combinations and   *)
(* so many more passes are left.  A lost turn is the farthest.             *)
Wait(p) ==
  LET holder == SeatAt(currentPlayerIndex)
      height == IF boardCards = {} THEN 0 ELSE Strength(boardCards)
  IN  Cardinality(Active)
        + IF ~InRange THEN 2 * MaxPlayers + 31
          ELSE IF p \notin hasPassed THEN Turns!Distance(holder, p)
          ELSE MaxPlayers + (30 - height) + Cardinality(Seated \ hasPassed)
                 + (IF holder \in hasPassed THEN 1 ELSE 0)

(* Nobody is kept waiting for a turn: while the seats stay, every play,    *)
(* pass, timeout and broken connection of the others brings a connected    *)
(* player nearer to the turn, also one who has passed or who sits behind a *)
(* turn that was lost (nextTurnIndex, playCards, passTurn, update,         *)
(* onPlayerDisconnect).                                                    *)
TurnComesNearer ==
  [][\A p \in Active \ isDisconnected' :
       state = "PLAYING" /\ state' = "PLAYING" /\ seats' = seats =>
         HoldsTurn(p) \/ HoldsTurn(p)' \/ Wait(p)' < Wait(p)]_roomVars

(* GameHandler can treat the game as a record of RoomStates: seats are     *)
(* taken, given up and kept, and hands begin and end, only as Room allows. *)
AsRoom == INSTANCE Room WITH
  room <- [seated |-> Seated, gone |-> isDisconnected, phase |-> state]

ImplementsRoom == AsRoom!Spec

============================================================================
