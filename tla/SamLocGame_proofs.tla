------------------------- MODULE SamLocGame_proofs -------------------------
(***************************************************************************)
(* The safety of one room for every number of users, every deck and every  *)
(* bet.                                                                    *)
(*                                                                         *)
(* First the inductive invariant IInv and what it implies.  Then the sum   *)
(* of the balances: MapThenSumSet is a recursive function over the subsets *)
(* of Player, so its facts are proved by induction, for a set of naturals  *)
(* or subsets that is closed (NaturalsBySteps, SubsetsBySteps), and a      *)
(* settlement is four transfers.  Then, SamLocGame implements Room, so     *)
(* that GameHandler may keep a record of RoomStates in place of the game,  *)
(* and TurnOrder, so that its indices and loops give the turns the order   *)
(* of the seats: the walk of nextTurnIndex visits, k steps from the turn,  *)
(* the seat at distance k, and every other seat once before it is back     *)
(* (Walk); the first candidate it meets is then the nearest, and meeting   *)
(* none means there is none; and the wait for the turn, which has a        *)
(* measure that every move lowers.  At the end, the rules of a move: what  *)
(* the loop of analyzeHand decides, also of a list of cards as MCRules     *)
(* sorts it, and why a trick is bounded.                                   *)
(***************************************************************************)
EXTENDS SamLocGame, FiniteSetTheorems, WellFoundedInduction, TLAPS

(* No player has two seats.                                                *)
SeatsDistinct ==
  \A i, j \in 1..Len(seats) : seats[i] = seats[j] => i = j

FlagsSeated ==
  /\ isReady \subseteq Seated
  /\ hasPassed \subseteq Seated
  /\ isDisconnected \subseteq Seated

(* Outside a hand nothing of the last one is left.                         *)
IdleRoom ==
  state # "PLAYING" =>
    /\ currentPlayerIndex = -1
    /\ lastTurnOwnerId = NoPlayer
    /\ boardCards = {}
    /\ hasPassed = {}
    /\ isDisconnected = {}
    /\ hand = [p \in Player |-> {}]
    /\ ~lockedForJoin

RunningRoom ==
  state = "PLAYING" =>
    /\ Len(seats) >= 1
    /\ currentPlayerIndex >= 0
    /\ lockedForJoin
    /\ Seated \subseteq unsettled

(* The balance that admitted a player is there until the hand is settled,  *)
(* but for what has gone elsewhere.                                        *)
SeatedCanPay == \A p \in Seated : wallet[p] - elsewhere[p] >= minRequired

HandsBounded == \A p \in Player : Cardinality(hand[p]) <= HandSize

IInv ==
  /\ TypeOK
  /\ SeatsDistinct
  /\ FlagsSeated
  /\ IdleRoom
  /\ RunningRoom
  /\ CountdownHasPlayers
  /\ NoCardTwice
  /\ TurnHolderCanMove
  /\ OwnerIsNotAsked
  /\ NobodyPlaysWithoutCards
  /\ HandHasOpponents
  /\ SeatedCanPay
  /\ HandsBounded
  /\ NobodyIsOverdrawn

----------------------------------------------------------------------------
(* The vector after removePlayer: the other players, each with one seat.   *)
LEMMA SeatsWithoutPlayer ==
  ASSUME seats \in Seq(Player), SeatsDistinct, NEW p \in Seated
  PROVE  /\ SeatsWithout(p) \in Seq(Player)
         /\ Len(SeatsWithout(p)) = Len(seats) - 1
         /\ {SeatsWithout(p)[k] : k \in 1..(Len(seats) - 1)} = Seated \ {p}
         /\ \A j, k \in 1..(Len(seats) - 1) :
              SeatsWithout(p)[j] = SeatsWithout(p)[k] => j = k
  <1> DEFINE n == Len(seats)
             i == CHOOSE k \in 1..n : seats[k] = p
             s == [k \in 1..(n - 1) |-> IF k < i THEN seats[k] ELSE seats[k + 1]]
  <1>1. n \in Nat /\ \A k \in 1..n : seats[k] \in Player
    OBVIOUS
  <1>2. i \in 1..n /\ seats[i] = p
    BY DEF Seated
  <1>3. n - 1 \in Nat
    BY <1>1, <1>2
  <1>4. SeatsWithout(p) = s
    BY DEF SeatsWithout
  <1> HIDE DEF n, i
  <1>5. \A k \in 1..(n - 1) : s[k] = IF k < i THEN seats[k] ELSE seats[k + 1]
    OBVIOUS
  <1>6. s \in [1..(n - 1) -> Player]
    BY <1>1, <1>2
  <1>7. s \in Seq(Player) /\ Len(s) = n - 1
    BY <1>3, <1>6
  <1>8. \A j, k \in 1..(n - 1) : s[j] = s[k] => j = k
    BY <1>1, <1>2, <1>5 DEF SeatsDistinct, n
  <1>9. ASSUME NEW k \in 1..(n - 1) PROVE s[k] \in Seated \ {p}
    BY <1>1, <1>2, <1>5 DEF SeatsDistinct, Seated, n
  <1>10. ASSUME NEW q \in Seated \ {p} PROVE \E k \in 1..(n - 1) : s[k] = q
    <2>1. PICK m \in 1..n : seats[m] = q
      BY DEF Seated, n
    <2>2. m # i
      BY <2>1, <1>2
    <2>3. CASE m < i
      BY <2>1, <2>3, <1>1, <1>2, <1>5
    <2>4. CASE m > i
      <3>1. m - 1 \in 1..(n - 1) /\ ~(m - 1 < i)
        BY <2>4, <1>1, <1>2
      <3>2. s[m - 1] = seats[m]
        BY <3>1, <1>5, <1>1
      <3>3. QED
        BY <3>1, <3>2, <2>1
    <2>5. QED
      BY <2>2, <2>3, <2>4, <1>1, <1>2
  <1>11. {s[k] : k \in 1..(n - 1)} = Seated \ {p}
    BY <1>9, <1>10
  <1> HIDE DEF s
  <1>12. QED
    BY <1>4, <1>7, <1>8, <1>11 DEF n
(* What nextTurnIndex leaves behind, whatever the caller passed: an index  *)
(* of the vector, no new pass, a table that goes with its owner, and,      *)
(* unless all seats are disconnected, a connected player in the trick.     *)
LEMMA NextTurn ==
  ASSUME seats \in Seq(Player), Len(seats) >= 1, currentPlayerIndex \in Int,
         NEW passed, NEW gone, NEW own, NEW board,
         nextTurnIndex(passed, gone, own, board)
  PROVE  /\ currentPlayerIndex' \in 0..(Len(seats) - 1)
         /\ hasPassed' \subseteq passed
         /\ \/ /\ lastTurnOwnerId' = own
               /\ boardCards' = board
               /\ SeatAt(currentPlayerIndex') # own
            \/ lastTurnOwnerId' = NoPlayer /\ boardCards' = {}
         /\ \/ Seated \subseteq gone
            \/ SeatAt(currentPlayerIndex') \notin gone \cup hasPassed'
  <1> DEFINE n == Len(seats)
             After(k) == (currentPlayerIndex + k) % n
             Out(k) == SeatAt(After(k)) \in passed \cup gone
  <1>1. n \in Nat \ {0}
    OBVIOUS
  <1>2. \A k \in 1..n : After(k) \in 0..(n - 1)
    BY <1>1
  <1>3. PICK loop \in 1..n :
          /\ loop = n \/ ~Out(loop)
          /\ \/ /\ loop < n /\ SeatAt(After(loop)) # own
                /\ currentPlayerIndex' = After(loop)
                /\ hasPassed' = passed
                /\ lastTurnOwnerId' = own
                /\ boardCards' = board
             \/ /\ loop = n \/ SeatAt(After(loop)) = own
                /\ hasPassed' = passed \cap gone
                /\ lastTurnOwnerId' = NoPlayer
                /\ boardCards' = {}
                /\ \/ loop < n /\ currentPlayerIndex' = After(loop)
                   \/ /\ loop = n
                      /\ Seated \subseteq gone
                      /\ currentPlayerIndex' = After(n)
                   \/ /\ loop = n
                      /\ currentPlayerIndex' \in 0..(n - 1)
                      /\ SeatAt(currentPlayerIndex') \notin gone
    BY DEF nextTurnIndex, Skips, NewTrick
  <1> HIDE DEF After, n
  <1>4. n \in 1..n
    BY <1>1
  <1>5. QED
    BY <1>1, <1>2, <1>3, <1>4 DEF Out, n
----------------------------------------------------------------------------
(* An empty room at the start.                                             *)
LEMMA InitIInv == Init => IInv
  <1> SUFFICES ASSUME Init PROVE IInv
    OBVIOUS
  <1>1. Seated = {}
    BY DEF Init, Seated
  <1>2. TypeOK
    <2>1. <<>> \in Seq(Player) /\ Len(<<>>) = 0
      OBVIOUS
    <2>2. MaxPlayers \in 2..4 /\ InitialBalance \in [Player -> Int]
      BY GameAssumption
    <2>3. -1 \in -1..(MaxPlayers - 1) /\ 0 <= MaxPlayers
      BY <2>2
    <2>4. [p \in Player |-> {}] \in [Player -> SUBSET Card]
      OBVIOUS
    <2>5. wallet \in [Player -> Int] /\ elsewhere \in [Player -> Int]
      BY <2>2 DEF Init
    <2>6. QED
      BY <2>1, <2>2, <2>3, <2>4, <2>5 DEF Init, TypeOK
  <1>3. Cardinality({}) = 0
    BY FS_EmptySet
  <1>4. HandsBounded
    BY <1>3, GameAssumption DEF Init, HandsBounded
  <1>5. NobodyIsOverdrawn
    BY GameAssumption DEF Init, NobodyIsOverdrawn
  <1>6. QED
    BY <1>1, <1>2, <1>4, <1>5 DEF Init, IInv, SeatsDistinct, FlagsSeated, IdleRoom,
       RunningRoom, CountdownHasPlayers, NoCardTwice, TurnHolderCanMove,
       OwnerIsNotAsked, NobodyPlaysWithoutCards, HandHasOpponents, SeatedCanPay

(* A cleared room satisfies the invariant whatever was settled before.     *)
LEMMA ClearedRoom ==
  ASSUME NEW st \in {"WAITING", "FINISHED"}, ClearTable(st),
         wallet' \in [Player -> Int], elsewhere' \in [Player -> Int],
         \A p \in Player : wallet'[p] - elsewhere'[p] >= 0,
         unsettled' \subseteq Player, refused' \subseteq Player
  PROVE  IInv'
  <1>1. Seated' = {}
    BY DEF ClearTable, Seated
  <1>2. TypeOK'
    <2>1. <<>> \in Seq(Player) /\ Len(<<>>) = 0
      OBVIOUS
    <2>2. MaxPlayers \in 2..4
      BY GameAssumption
    <2>3. -1 \in -1..(MaxPlayers - 1) /\ 0 <= MaxPlayers
      BY <2>2
    <2>4. [p \in Player |-> {}] \in [Player -> SUBSET Card]
      OBVIOUS
    <2>5. QED
      BY <2>1, <2>2, <2>3, <2>4 DEF ClearTable, TypeOK
  <1>3. Cardinality({}) = 0
    BY FS_EmptySet
  <1>4. HandsBounded'
    BY <1>3, GameAssumption DEF ClearTable, HandsBounded
  <1>5. NobodyIsOverdrawn'
    BY DEF NobodyIsOverdrawn
  <1>6. QED
    BY <1>1, <1>2, <1>4, <1>5 DEF ClearTable, IInv, SeatsDistinct, FlagsSeated,
       IdleRoom, RunningRoom, CountdownHasPlayers, NoCardTwice, TurnHolderCanMove,
       OwnerIsNotAsked, NobodyPlaysWithoutCards, HandHasOpponents, SeatedCanPay

(* A new player sits down behind the others, with the entry balance.       *)
LEMMA AddPlayerStep ==
  ASSUME IInv, NEW p \in Player, addPlayer(p)
  PROVE  IInv'
  <1> USE DEF IInv
  <1>1. Seated' = Seated \cup {p}
    <2>1. /\ Len(seats) \in Nat
          /\ Len(seats') = Len(seats) + 1
          /\ \A i \in 1..Len(seats) : seats'[i] = seats[i]
          /\ seats'[Len(seats) + 1] = p
      BY DEF addPlayer, TypeOK
    <2>2. QED
      BY <2>1 DEF Seated
  <1>2. state = "WAITING" /\ state' = "WAITING"
    BY DEF addPlayer, isJoinAllowed, phaseVars
  <1>3. TypeOK'
    <2>1. seats' \in Seq(Player) /\ Len(seats') <= MaxPlayers
      BY GameAssumption DEF addPlayer, TypeOK
    <2>2. QED
      BY <2>1 DEF addPlayer, TypeOK, flags, turnVars, phaseVars
  <1>4. SeatsDistinct'
    <2>1. /\ Len(seats) \in Nat
          /\ Len(seats') = Len(seats) + 1
          /\ \A i \in 1..Len(seats) : seats'[i] = seats[i] /\ seats[i] # p
          /\ seats'[Len(seats) + 1] = p
      BY DEF addPlayer, TypeOK, Seated
    <2>2. QED
      BY <2>1 DEF SeatsDistinct
  <1>5. FlagsSeated'
    BY <1>1 DEF addPlayer, FlagsSeated, flags
  <1>6. IdleRoom' /\ RunningRoom' /\ TurnHolderCanMove' /\ NobodyPlaysWithoutCards'
        /\ HandHasOpponents'
    BY <1>2 DEF addPlayer, IdleRoom, RunningRoom, TurnHolderCanMove,
       NobodyPlaysWithoutCards, HandHasOpponents, flags, turnVars, phaseVars
  <1>7. CountdownHasPlayers'
    BY DEF addPlayer, CountdownHasPlayers, TypeOK, flags, phaseVars
  <1>8. NoCardTwice'
    BY <1>1 DEF addPlayer, NoCardTwice, turnVars
  <1>9. OwnerIsNotAsked'
    BY <1>2 DEF addPlayer, OwnerIsNotAsked, turnVars
  <1>10. SeatedCanPay' /\ NobodyIsOverdrawn'
    <2>1. /\ wallet' = wallet /\ wallet[p] >= minRequired
          /\ wallet \in [Player -> Int] /\ elsewhere \in [Player -> Int]
          /\ \A q \in Player : elsewhere'[q] = IF q = p THEN 0 ELSE elsewhere[q]
      BY DEF addPlayer, TypeOK
    <2>2. minRequired' = minRequired /\ minRequired \in Nat
      BY GameAssumption DEF minRequired
    <2>3. Seated \subseteq Player
      BY DEF TypeOK, Seated
    <2>4. wallet'[p] - elsewhere'[p] >= minRequired /\ wallet'[p] - elsewhere'[p] >= 0
      BY <2>1, <2>2
    <2>5. \A q \in Player \ {p} : wallet'[q] - elsewhere'[q] = wallet[q] - elsewhere[q]
      BY <2>1
    <2>6. QED
      BY <1>1, <2>2, <2>3, <2>4, <2>5 DEF SeatedCanPay, NobodyIsOverdrawn
  <1>11. HandsBounded'
    BY DEF addPlayer, HandsBounded
  <1>12. QED
    BY <1>3, <1>4, <1>5, <1>6, <1>7, <1>8, <1>9, <1>10, <1>11

(* A ready flag may begin or end a countdown.                              *)
LEMMA SetReadyStep ==
  ASSUME IInv, NEW p \in Player, NEW ready \in BOOLEAN, setPlayerReady(p, ready)
  PROVE  IInv'
  <1> USE DEF IInv
  <1>1. Seated' = Seated
    BY DEF setPlayerReady, Seated
  <1>2. state # "PLAYING" /\ state' = "WAITING"
    BY DEF setPlayerReady
  <1>3. TypeOK'
    BY DEF setPlayerReady, AllReady, TypeOK, turnVars, moneyVars
  <1>4. SeatsDistinct'
    BY DEF setPlayerReady, SeatsDistinct
  <1>5. FlagsSeated'
    BY <1>1 DEF setPlayerReady, FlagsSeated
  <1>6. IdleRoom' /\ RunningRoom' /\ TurnHolderCanMove' /\ NobodyPlaysWithoutCards'
        /\ HandHasOpponents'
    BY <1>2 DEF setPlayerReady, IdleRoom, RunningRoom, TurnHolderCanMove,
       NobodyPlaysWithoutCards, HandHasOpponents, turnVars
  <1>7. CountdownHasPlayers'
    BY <1>2 DEF setPlayerReady, AllReady, CountdownHasPlayers, IdleRoom
  <1>8. NoCardTwice'
    BY <1>1 DEF setPlayerReady, NoCardTwice, turnVars
  <1>9. OwnerIsNotAsked'
    BY <1>2 DEF setPlayerReady, OwnerIsNotAsked, turnVars
  <1>10. SeatedCanPay' /\ HandsBounded' /\ NobodyIsOverdrawn'
    BY <1>1 DEF setPlayerReady, SeatedCanPay, minRequired, HandsBounded,
       NobodyIsOverdrawn, moneyVars
  <1>11. QED
    BY <1>3, <1>4, <1>5, <1>6, <1>7, <1>8, <1>9, <1>10

(* A seat given up closes ranks, and leaves the index alone.               *)
LEMMA RemovePlayerStep ==
  ASSUME IInv, NEW p \in Player, removePlayer(p)
  PROVE  IInv'
  <1> USE DEF IInv
  <1>1. /\ wallet' = wallet /\ unsettled' = unsettled
        /\ refused' = refused /\ elsewhere' = elsewhere
    BY DEF removePlayer, moneyVars
  <1>2. CASE ClearTable("WAITING")
    BY <1>1, <1>2, ClearedRoom DEF TypeOK, NobodyIsOverdrawn
  <1>3. CASE ~ClearTable("WAITING")
    <2>1. /\ p \in Seated /\ Seated # {p}
          /\ seats' = SeatsWithout(p)
          /\ isReady' = isReady \ {p}
          /\ hasPassed' = hasPassed \ {p}
          /\ isDisconnected' = isDisconnected \ {p}
          /\ hand' = [hand EXCEPT ![p] = {}]
          /\ startingScheduled' = FALSE
          /\ state' = state /\ lockedForJoin' = lockedForJoin
          /\ currentPlayerIndex' = currentPlayerIndex
          /\ lastTurnOwnerId' = lastTurnOwnerId
          /\ boardCards' = boardCards
      BY <1>3 DEF removePlayer, turnVars
    <2>2. /\ seats' \in Seq(Player)
          /\ Len(seats') = Len(seats) - 1
          /\ Seated' = Seated \ {p}
          /\ SeatsDistinct'
      <3>1. seats \in Seq(Player)
        BY DEF TypeOK
      <3>2. /\ SeatsWithout(p) \in Seq(Player)
            /\ Len(SeatsWithout(p)) = Len(seats) - 1
            /\ {SeatsWithout(p)[k] : k \in 1..(Len(seats) - 1)} = Seated \ {p}
            /\ \A j, k \in 1..(Len(seats) - 1) :
                 SeatsWithout(p)[j] = SeatsWithout(p)[k] => j = k
        BY <2>1, <3>1, SeatsWithoutPlayer
      <3>3. Seated' = {seats'[k] : k \in 1..Len(seats')}
        BY DEF Seated
      <3>4. seats' \in Seq(Player) /\ Len(seats') = Len(seats) - 1
        BY <2>1, <3>2
      <3>5. Seated' = Seated \ {p}
        BY <2>1, <3>2, <3>3
      <3>6. SeatsDistinct'
        BY <2>1, <3>2 DEF SeatsDistinct
      <3>7. QED
        BY <3>4, <3>5, <3>6
    <2>3. Len(seats') >= 1
      <3>1. PICK q \in Seated : q # p
        BY <2>1
      <3>2. q \in Seated'
        BY <2>2, <3>1
      <3>3. QED
        BY <2>2, <3>2 DEF Seated
    <2>4. \A q \in Player : hand'[q] = IF q = p THEN {} ELSE hand[q]
      BY <2>1 DEF TypeOK
    <2>5. TypeOK'
      <3>1. hand' \in [Player -> SUBSET Card]
        BY <2>1 DEF TypeOK
      <3>2. Len(seats') <= MaxPlayers
        BY <2>2, GameAssumption DEF TypeOK
      <3>3. QED
        BY <1>1, <2>1, <2>2, <3>1, <3>2 DEF TypeOK
    <2>6. FlagsSeated'
      BY <2>1, <2>2 DEF FlagsSeated
    <2>7. IdleRoom'
      BY <2>1 DEF IdleRoom
    <2>8. RunningRoom'
      BY <1>1, <2>1, <2>2, <2>3 DEF RunningRoom
    <2>9. CountdownHasPlayers'
      BY <2>1 DEF CountdownHasPlayers
    <2>10. NoCardTwice'
      BY <2>1, <2>2, <2>4 DEF NoCardTwice
    <2>11. state = "PLAYING" => Departed' # {}
      BY <1>1, <2>1, <2>2 DEF RunningRoom, Departed
    <2>12. TurnHolderCanMove' /\ OwnerIsNotAsked' /\ HandHasOpponents'
      BY <2>1, <2>11 DEF TurnHolderCanMove, OwnerIsNotAsked, HandHasOpponents
    <2>13. NobodyPlaysWithoutCards'
      <3>1. Seated \subseteq Player
        BY DEF TypeOK, Seated
      <3>2. SUFFICES ASSUME state' = "PLAYING", NEW q \in Seated'
                     PROVE  hand'[q] # {}
        BY DEF NobodyPlaysWithoutCards
      <3>3. hand[q] # {}
        BY <2>1, <2>2, <3>2 DEF NobodyPlaysWithoutCards
      <3>4. QED
        BY <2>2, <2>4, <3>1, <3>2, <3>3
    <2>14. SeatedCanPay' /\ NobodyIsOverdrawn'
      BY <1>1, <2>2 DEF SeatedCanPay, minRequired, NobodyIsOverdrawn
    <2>15. HandsBounded'
      <3>1. Cardinality({}) <= HandSize
        BY FS_EmptySet, GameAssumption
      <3>2. QED
        BY <2>4, <3>1 DEF HandsBounded
    <2>16. QED
      BY <2>2, <2>5, <2>6, <2>7, <2>8, <2>9, <2>10, <2>12, <2>13, <2>14, <2>15
  <1>4. QED
    BY <1>2, <1>3

(* Two different elements are two.                                         *)
LEMMA TwoElements ==
  ASSUME NEW a, NEW b, a # b
  PROVE  Cardinality({a, b}) = 2
  <1>1. PICK S : S = {a}
    OBVIOUS
  <1>2. IsFiniteSet(S) /\ Cardinality(S) = 1
    BY <1>1, FS_Singleton
  <1>3. b \notin S /\ S \cup {b} = {a, b}
    BY <1>1
  <1>4. Cardinality(S \cup {b}) = 2
    BY <1>2, <1>3, FS_AddElement
  <1>5. QED
    BY <1>3, <1>4

(* The distinct players of two seats make two.                             *)
LEMMA TwoSeats ==
  ASSUME seats \in Seq(Player), SeatsDistinct, Len(seats) >= 2
  PROVE  Cardinality(Seated) >= 2
  <1>1. /\ seats[1] \in Seated /\ seats[2] \in Seated
        /\ seats[1] # seats[2]
        /\ Seated \subseteq Player
    BY DEF SeatsDistinct, Seated
  <1>2. IsFiniteSet(Seated)
    BY <1>1, FS_Subset, GameAssumption
  <1>3. Cardinality({seats[1], seats[2]}) = 2
    BY <1>1, TwoElements
  <1>4. Cardinality({seats[1], seats[2]}) <= Cardinality(Seated)
    <2>1. {seats[1], seats[2]} \subseteq Seated
      BY <1>1
    <2>2. QED
      BY <1>2, <2>1, FS_Subset
  <1>5. Cardinality(Seated) \in Nat
    BY <1>2, FS_CardinalityType
  <1>6. QED
    BY <1>3, <1>4, <1>5

(* The cards are dealt from one deck, each to one seat.                    *)
LEMMA StartStep ==
  ASSUME IInv, startPlayingPhase
  PROVE  IInv'
  <1> USE DEF IInv
  <1>1. PICK first \in 0..(Len(seats) - 1), deal \in Deals(Seated) :
          /\ SeatAt(first) \in Active
          /\ currentPlayerIndex' = first
          /\ hand' = [p \in Player |-> IF p \in Seated THEN deal[p] ELSE {}]
    BY DEF startPlayingPhase, FirstSeats
  <1>2. /\ state = "WAITING" /\ startingScheduled
        /\ state' = "PLAYING" /\ startingScheduled' = FALSE /\ lockedForJoin' = TRUE
        /\ isReady' = {} /\ hasPassed' = {}
        /\ lastTurnOwnerId' = NoPlayer /\ boardCards' = {}
        /\ unsettled' = Seated
        /\ seats' = seats /\ isDisconnected' = isDisconnected /\ wallet' = wallet
        /\ refused' = {} /\ elsewhere' = elsewhere
    BY DEF startPlayingPhase
  <1>3. Len(seats) >= 2 /\ isDisconnected = {}
    BY <1>2 DEF CountdownHasPlayers
  <1>4. Seated' = Seated /\ Seated \subseteq Player
    BY <1>2 DEF Seated, TypeOK
  <1>5. /\ \A p \in Seated : deal[p] \subseteq Card /\ Cardinality(deal[p]) = HandSize
        /\ \A p, q \in Seated : p # q => deal[p] \cap deal[q] = {}
    BY DEF Deals, HandsOfCards
  <1>6. \A p \in Player : hand'[p] = IF p \in Seated THEN deal[p] ELSE {}
    BY <1>1
  <1>7. Cardinality({}) = 0 /\ HandSize \in Nat /\ HandSize >= 1
    BY FS_EmptySet, GameAssumption
  <1>8. TypeOK'
    <2>1. hand' \in [Player -> SUBSET Card]
      BY <1>1, <1>4, <1>5
    <2>2. currentPlayerIndex' \in -1..(MaxPlayers - 1)
      BY <1>1, GameAssumption DEF TypeOK
    <2>3. QED
      BY <1>2, <1>4, <2>1, <2>2 DEF TypeOK
  <1>9. SeatsDistinct'
    BY <1>2 DEF SeatsDistinct
  <1>10. FlagsSeated' /\ IdleRoom' /\ CountdownHasPlayers' /\ SeatedCanPay'
         /\ NobodyIsOverdrawn'
    BY <1>2, <1>3, <1>4 DEF FlagsSeated, IdleRoom, CountdownHasPlayers, SeatedCanPay,
       minRequired, NobodyIsOverdrawn
  <1>11. RunningRoom'
    BY <1>1, <1>2, <1>3, <1>4 DEF RunningRoom, TypeOK
  <1>12. NoCardTwice'
    BY <1>2, <1>4, <1>5, <1>6 DEF NoCardTwice
  <1>13. TurnHolderCanMove'
    <2>1. SeatAt(first) \in Seated
      BY <1>1 DEF Active
    <2>2. InRange' /\ SeatAt(currentPlayerIndex)' = SeatAt(first)
      BY <1>1, <1>2 DEF InRange, SeatAt
    <2>3. QED
      BY <1>2, <1>3, <1>4, <2>1, <2>2 DEF TurnHolderCanMove, Active
  <1>14. OwnerIsNotAsked'
    BY <1>2 DEF OwnerIsNotAsked
  <1>15. NobodyPlaysWithoutCards'
    <2>1. ASSUME NEW S, Cardinality(S) = HandSize PROVE S # {}
      <3>1. Cardinality({}) # HandSize
        BY <1>7
      <3>2. QED
        BY <2>1, <3>1, Zenon
    <2>2. \A p \in Seated : deal[p] # {}
      BY <1>5, <2>1
    <2>3. \A p \in Seated : hand'[p] = deal[p]
      BY <1>4, <1>6
    <2>4. QED
      BY <1>4, <2>2, <2>3 DEF NobodyPlaysWithoutCards
  <1>16. HandHasOpponents'
    <2>1. Cardinality(Seated) >= 2
      BY <1>3, TwoSeats DEF TypeOK
    <2>2. Active' = Seated
      BY <1>2, <1>3, <1>4 DEF Active
    <2>3. QED
      BY <2>1, <2>2 DEF HandHasOpponents
  <1>17. HandsBounded'
    BY <1>5, <1>6, <1>7 DEF HandsBounded
  <1>18. QED
    BY <1>8, <1>9, <1>10, <1>11, <1>12, <1>13, <1>14, <1>15, <1>16, <1>17

----------------------------------------------------------------------------
(* The end of a hand: what is lost is covered by the balance.              *)

(* Ten cards and the extra bet stay below the fifteen bets asked for.      *)
LEMMA BoundedStake ==
  ASSUME NEW c \in 0..10
  PROVE  c * Bet \in Nat /\ c * Bet + Bet <= 15 * Bet
  <1>1. Bet \in Nat
    BY GameAssumption
  <1>2. c = 0 \/ c = 1 \/ c = 2 \/ c = 3 \/ c = 4 \/ c = 5 \/ c = 6 \/ c = 7 \/ c = 8
        \/ c = 9 \/ c = 10
    OBVIOUS
  <1>3. QED
    BY <1>1, <1>2

(* The most a player can lose is what the entry balance has.               *)
LEMMA LossIsCovered ==
  ASSUME IInv, NEW q \in Player, NEW reason, NEW gone
  PROVE  Loss(q, reason, gone) \in Nat /\ Loss(q, reason, gone) <= minRequired
  <1>1. Bet \in Nat /\ HandSize \in 1..10 /\ RoomType \in {"dem_la", "dat_cuoc"}
    BY GameAssumption
  <1>2. Cardinality(hand[q]) \in 0..10
    <2>1. hand[q] \subseteq Card /\ Cardinality(hand[q]) <= HandSize
      BY DEF IInv, TypeOK, HandsBounded
    <2>2. IsFiniteSet(hand[q])
      BY <2>1, RulesAssumption, FS_Subset
    <2>3. Cardinality(hand[q]) \in Nat
      BY <2>2, FS_CardinalityType
    <2>4. QED
      BY <1>1, <2>1, <2>3
  <1>3. /\ Cardinality(hand[q]) * Bet \in Nat
        /\ Cardinality(hand[q]) * Bet + Bet <= 15 * Bet
    BY <1>2, BoundedStake
  <1>4. PICK c : c = Cardinality(hand[q]) * Bet
    OBVIOUS
  <1>5. PICK top : top = 15 * Bet /\ top \in Nat
    BY <1>1
  <1>6. PICK extra : extra = (IF reason = 2 /\ q \in gone THEN Bet ELSE 0)
    OBVIOUS
  <1>7. extra \in 0..Bet
    BY <1>1, <1>6
  <1>8. CASE RoomType = "dem_la"
    <2>1. Loss(q, reason, gone) = c + extra
      BY <1>4, <1>6, <1>8 DEF Loss
    <2>2. minRequired = top
      BY <1>5, <1>8 DEF minRequired
    <2>3. QED
      BY <1>1, <1>3, <1>4, <1>5, <1>7, <2>1, <2>2
  <1>9. CASE RoomType = "dat_cuoc"
    <2>1. Loss(q, reason, gone) = Bet + extra
      BY <1>6, <1>9 DEF Loss
    <2>2. minRequired = 2 * Bet
      BY <1>9 DEF minRequired
    <2>3. QED
      BY <1>1, <1>7, <2>1, <2>2
  <1>10. QED
    BY <1>1, <1>8, <1>9

(* A settlement leaves every balance at zero or more, but for what has     *)
(* gone elsewhere, whichever UPDATEs take effect.                          *)
LEMMA Settled ==
  ASSUME IInv, NEW winner, NEW reason, NEW gone, NEW booked \in SUBSET Seated,
         SettleHand(winner, reason, gone, booked)
  PROVE  /\ wallet' \in [Player -> Int] /\ elsewhere' \in [Player -> Int]
         /\ \A p \in Player : wallet'[p] - elsewhere'[p] >= 0
         /\ unsettled' \subseteq Player
  <1> DEFINE Owed(i) == Due(i, winner, reason, gone)
             pool == Owed(0) + Owed(1) + Owed(2) + Owed(3)
  <1>1. /\ wallet' = [p \in Player |->
              IF p \notin booked THEN wallet[p]
              ELSE IF p = winner THEN wallet[p] + pool
              ELSE wallet[p] - Loss(p, reason, gone)]
        /\ unsettled' = unsettled \ booked
        /\ elsewhere' = elsewhere
    BY DEF SettleHand
  <1>2. ASSUME NEW i \in 0..3 PROVE Owed(i) \in Nat
    <2>1. i < Len(seats) => SeatAt(i) \in Player
      BY DEF IInv, TypeOK, SeatAt
    <2>2. QED
      BY <2>1, LossIsCovered DEF Due
  <1>3. pool \in Nat
    <2>1. Owed(0) \in Nat /\ Owed(1) \in Nat /\ Owed(2) \in Nat /\ Owed(3) \in Nat
      BY <1>2
    <2> HIDE DEF Owed
    <2>2. QED
      BY <2>1
  <1> HIDE DEF pool
  <1>4. ASSUME NEW p \in Player
        PROVE  wallet'[p] \in Int /\ wallet'[p] - elsewhere[p] >= 0
    <2>1. wallet[p] \in Int /\ elsewhere[p] \in Int /\ wallet[p] - elsewhere[p] >= 0
      BY DEF IInv, TypeOK, NobodyIsOverdrawn
    <2>2. CASE p \in booked /\ p = winner
      <3>1. wallet'[p] = wallet[p] + pool
        BY <1>1, <2>2
      <3>2. QED
        BY <1>3, <2>1, <3>1
    <2>3. CASE p \in booked /\ p # winner
      <3>1. wallet'[p] = wallet[p] - Loss(p, reason, gone)
        BY <1>1, <2>3
      <3>2. wallet[p] - elsewhere[p] >= minRequired
        BY <2>3 DEF IInv, SeatedCanPay
      <3>3. Loss(p, reason, gone) \in Nat /\ Loss(p, reason, gone) <= minRequired
        BY LossIsCovered
      <3>4. minRequired \in Nat
        BY GameAssumption DEF minRequired
      <3>5. QED
        BY <2>1, <3>1, <3>2, <3>3, <3>4
    <2>4. CASE p \notin booked
      BY <1>1, <2>1, <2>4
    <2>5. QED
      BY <2>2, <2>3, <2>4
  <1>5. wallet' \in [Player -> Int]
    <2>1. DOMAIN wallet' = Player
      BY <1>1
    <2>2. wallet' = [p \in Player |-> wallet'[p]]
      BY <1>1
    <2>3. QED
      BY <1>4, <2>1, <2>2
  <1>6. unsettled' \subseteq Player /\ elsewhere' \in [Player -> Int]
    BY <1>1 DEF IInv, TypeOK
  <1>7. QED
    BY <1>1, <1>4, <1>5, <1>6

(* Who is seated is one of the players.                                    *)
LEMMA SeatedArePlayers == IInv => Seated \subseteq Player
  <1>1. IInv => seats \in Seq(Player)
    BY DEF IInv, TypeOK
  <1>2. seats \in Seq(Player) => Seated \subseteq Player
    BY DEF Seated
  <1>3. QED
    BY <1>1, <1>2

(* However far the UPDATEs of handleWin come, they are of seats.           *)
LEMMA ReachedAreSeated ==
  ASSUME NEW winner, NEW reached \in {Seated} \cup Reached(winner)
  PROVE  /\ reached \subseteq Seated
         /\ reached # Seated => winner \notin reached
  <1>1. CASE reached = Seated
    BY <1>1
  <1>2. CASE reached \in Reached(winner)
    <2>1. PICK k \in 0..Len(seats) : reached = {seats[i] : i \in 1..k} \ {winner}
      BY <1>2 DEF Reached
    <2>2. \A i \in 1..k : i \in 1..Len(seats)
      BY <2>1
    <2>3. QED
      BY <2>1, <2>2 DEF Seated
  <1>3. QED
    BY <1>1, <1>2

(* Whatever becomes of its UPDATEs, handleWin clears the table.            *)
LEMMA WinClears ==
  ASSUME NEW winner, NEW reason, NEW gone, NEW st, handleWin(winner, reason, gone, st)
  PROVE  ClearTable(st) \/ ClearTable("WAITING")
  BY DEF handleWin

(* The room after a hand that was won.                                     *)
LEMMA WonStep ==
  ASSUME IInv, NEW winner, NEW reason, NEW gone, NEW st \in {"WAITING", "FINISHED"},
         handleWin(winner, reason, gone, st)
  PROVE  IInv'
  <1>0. PICK reached \in {Seated} \cup Reached(winner) :
        \E booked \in SUBSET reached :
          /\ SettleHand(winner, reason, gone, booked)
          /\ refused' = reached \ booked
          /\ ClearTable(IF winner \in reached THEN st ELSE "WAITING")
    BY DEF handleWin
  <1>1. PICK booked \in SUBSET reached :
          /\ SettleHand(winner, reason, gone, booked)
          /\ refused' = reached \ booked
          /\ ClearTable(IF winner \in reached THEN st ELSE "WAITING")
    BY <1>0
  <1>2. booked \in SUBSET Seated /\ refused' \subseteq Seated
    <2>1. reached \subseteq Seated
      BY <1>0, ReachedAreSeated
    <2>2. QED
      BY <1>1, <2>1
  <1>3. refused' \subseteq Player
    BY <1>2, SeatedArePlayers
  <1>4. /\ wallet' \in [Player -> Int] /\ elsewhere' \in [Player -> Int]
        /\ \A p \in Player : wallet'[p] - elsewhere'[p] >= 0
        /\ unsettled' \subseteq Player
    BY <1>1, <1>2, Settled
  <1>5. PICK end \in {"WAITING", "FINISHED"} : ClearTable(end)
    BY <1>1
  <1>6. QED
    BY <1>3, <1>4, <1>5, ClearedRoom

(* Only a combination can be laid on the table, never nothing.             *)
LEMMA NothingBeats ==
  ASSUME NEW cards, NEW board, canBeat(cards, board)
  PROVE  cards # {}
  <1>1. TypeOf(cards) # "INVALID"
    BY DEF canBeat, analyzeHand
  <1>2. Cardinality({}) = 0
    BY FS_EmptySet
  <1>3. TypeOf({}) = "INVALID"
    BY <1>2 DEF TypeOf
  <1>4. QED
    BY <1>1, <1>3, Zenon

(* A play hands the turn on, or ends the hand and clears the table.        *)
LEMMA PlayCardsStep ==
  ASSUME IInv, NEW p \in Player, NEW cards, playCards(p, cards)
  PROVE  IInv'
  <1> USE DEF IInv
  <1>1. state = "PLAYING" /\ HoldsTurn(p) /\ cards \subseteq hand[p]
        /\ canBeat(cards, boardCards)
    BY DEF playCards
  <1>2. CASE cards = hand[p]
    <2>1. handleWin(p, 1, isDisconnected, "FINISHED")
      BY <1>2 DEF playCards
    <2>2. QED
      BY <2>1, WonStep
  <1>3. CASE cards # hand[p]
    <2>1. /\ hand' = [hand EXCEPT ![p] = @ \ cards]
          /\ nextTurnIndex(hasPassed, isDisconnected, p, cards)
          /\ seats' = seats /\ isReady' = isReady /\ isDisconnected' = isDisconnected
          /\ state' = state /\ startingScheduled' = startingScheduled
          /\ lockedForJoin' = lockedForJoin
          /\ wallet' = wallet /\ unsettled' = unsettled
          /\ refused' = refused /\ elsewhere' = elsewhere
      BY <1>3 DEF playCards, phaseVars, moneyVars
    <2>2. Seated' = Seated /\ Active' = Active /\ Departed' = Departed
      BY <2>1 DEF Seated, Active, Departed
    <2>3. seats \in Seq(Player) /\ Len(seats) >= 1 /\ currentPlayerIndex \in Int
          /\ Len(seats) <= MaxPlayers
      BY <1>1 DEF TypeOK, RunningRoom
    <2>4. /\ currentPlayerIndex' \in 0..(Len(seats) - 1)
          /\ hasPassed' \subseteq hasPassed
          /\ \/ /\ lastTurnOwnerId' = p
                /\ boardCards' = cards
                /\ SeatAt(currentPlayerIndex') # p
             \/ lastTurnOwnerId' = NoPlayer /\ boardCards' = {}
          /\ \/ Seated \subseteq isDisconnected
             \/ SeatAt(currentPlayerIndex') \notin isDisconnected \cup hasPassed'
      BY <2>1, <2>3, NextTurn
    <2>5. SeatAt(currentPlayerIndex)' = SeatAt(currentPlayerIndex') /\ InRange'
          /\ SeatAt(currentPlayerIndex') \in Seated
      BY <2>1, <2>3, <2>4 DEF SeatAt, InRange, Seated
    <2>6. p # NoPlayer /\ cards # {}
      BY <1>1, NothingBeats, GameAssumption
    <2>7. \A q \in Player : hand'[q] = IF q = p THEN hand[p] \ cards ELSE hand[q]
      BY <2>1 DEF TypeOK
    <2>8. TypeOK'
      <3>1. hand' \in [Player -> SUBSET Card] /\ cards \subseteq Card
        BY <1>1, <2>1 DEF TypeOK
      <3>2. currentPlayerIndex' \in -1..(MaxPlayers - 1)
        BY <2>3, <2>4, GameAssumption
      <3>3. QED
        BY <2>1, <2>4, <3>1, <3>2 DEF TypeOK
    <2>9. SeatsDistinct' /\ SeatedCanPay' /\ NobodyIsOverdrawn'
      BY <2>1, <2>2 DEF SeatsDistinct, SeatedCanPay, minRequired, NobodyIsOverdrawn
    <2>10. FlagsSeated' /\ IdleRoom' /\ CountdownHasPlayers'
      BY <1>1, <2>1, <2>2, <2>4 DEF FlagsSeated, IdleRoom, CountdownHasPlayers
    <2>11. RunningRoom'
      BY <1>1, <2>1, <2>2, <2>3, <2>4 DEF RunningRoom
    <2>12. NoCardTwice'
      BY <1>1, <2>2, <2>4, <2>7 DEF NoCardTwice
    <2>13. TurnHolderCanMove' /\ OwnerIsNotAsked'
      <3>1. Departed = {} => ~(Seated \subseteq isDisconnected)
        BY <1>1 DEF TurnHolderCanMove, InRange, SeatAt, Active, Seated
      <3>2. QED
        BY <1>1, <2>1, <2>2, <2>4, <2>5, <2>6, <3>1
           DEF TurnHolderCanMove, OwnerIsNotAsked, Active
    <2>14. NobodyPlaysWithoutCards'
      <3>1. hand[p] \ cards # {}
        BY <1>1, <1>3
      <3>2. Seated \subseteq Player
        BY DEF TypeOK, Seated
      <3>3. ASSUME NEW q \in Seated PROVE hand'[q] # {}
        <4>1. hand[q] # {}
          BY <1>1 DEF NobodyPlaysWithoutCards
        <4>2. QED
          BY <2>7, <3>1, <3>2, <4>1
      <3>4. QED
        BY <2>2, <3>3 DEF NobodyPlaysWithoutCards
    <2>15. HandHasOpponents'
      BY <1>1, <2>2 DEF HandHasOpponents
    <2>16. HandsBounded'
      <3>1. Cardinality(hand[p] \ cards) <= HandSize
        <4>1. hand[p] \subseteq Card /\ Cardinality(hand[p]) <= HandSize
          BY DEF TypeOK, HandsBounded
        <4>2. IsFiniteSet(hand[p])
          BY <4>1, RulesAssumption, FS_Subset
        <4>3. /\ IsFiniteSet(hand[p] \ cards)
              /\ Cardinality(hand[p] \ cards) <= Cardinality(hand[p])
          BY <4>2, FS_Subset
        <4>4. /\ Cardinality(hand[p] \ cards) \in Nat
              /\ Cardinality(hand[p]) \in Nat
          BY <4>2, <4>3, FS_CardinalityType
        <4>5. QED
          BY <4>1, <4>3, <4>4, GameAssumption
      <3>2. QED
        BY <2>7, <3>1 DEF HandsBounded
    <2>17. QED
      BY <2>8, <2>9, <2>10, <2>11, <2>12, <2>13, <2>14, <2>15, <2>16
  <1>4. QED
    BY <1>2, <1>3

(* A pass hands the turn on to somebody who can move.                      *)
LEMMA PassTurnStep ==
  ASSUME IInv, NEW p \in Player, passTurn(p)
  PROVE  IInv'
  <1> USE DEF IInv
  <1>1. /\ state = "PLAYING"
        /\ nextTurnIndex(PassedAtIndex, isDisconnected, lastTurnOwnerId, boardCards)
        /\ seats' = seats /\ isReady' = isReady /\ isDisconnected' = isDisconnected
        /\ hand' = hand
        /\ state' = state /\ startingScheduled' = startingScheduled
        /\ lockedForJoin' = lockedForJoin
        /\ wallet' = wallet /\ unsettled' = unsettled
        /\ refused' = refused /\ elsewhere' = elsewhere
    BY DEF passTurn, phaseVars, moneyVars
  <1>2. Seated' = Seated /\ Active' = Active /\ Departed' = Departed
    BY <1>1 DEF Seated, Active, Departed
  <1>3. seats \in Seq(Player) /\ Len(seats) >= 1 /\ currentPlayerIndex \in Int
        /\ Len(seats) <= MaxPlayers /\ Seated \subseteq Player
    BY <1>1 DEF TypeOK, RunningRoom, Seated
  <1>4. PassedAtIndex \subseteq Seated
    BY <1>3 DEF PassedAtIndex, FlagsSeated, InRange, SeatAt, Seated
  <1>5. /\ currentPlayerIndex' \in 0..(Len(seats) - 1)
        /\ hasPassed' \subseteq PassedAtIndex
        /\ \/ /\ lastTurnOwnerId' = lastTurnOwnerId
              /\ boardCards' = boardCards
              /\ SeatAt(currentPlayerIndex') # lastTurnOwnerId
           \/ lastTurnOwnerId' = NoPlayer /\ boardCards' = {}
        /\ \/ Seated \subseteq isDisconnected
           \/ SeatAt(currentPlayerIndex') \notin isDisconnected \cup hasPassed'
    BY <1>1, <1>3, NextTurn
  <1>6. SeatAt(currentPlayerIndex)' = SeatAt(currentPlayerIndex') /\ InRange'
        /\ SeatAt(currentPlayerIndex') \in Seated
    BY <1>1, <1>3, <1>5 DEF SeatAt, InRange, Seated
  <1>7. TypeOK'
    <2>1. currentPlayerIndex' \in -1..(MaxPlayers - 1)
      BY <1>3, <1>5, GameAssumption
    <2>2. QED
      BY <1>1, <1>3, <1>4, <1>5, <2>1 DEF TypeOK
  <1>8. SeatsDistinct' /\ SeatedCanPay' /\ NobodyIsOverdrawn' /\ HandsBounded'
    BY <1>1, <1>2 DEF SeatsDistinct, SeatedCanPay, minRequired, NobodyIsOverdrawn,
       HandsBounded
  <1>9. FlagsSeated' /\ IdleRoom' /\ CountdownHasPlayers'
    BY <1>1, <1>2, <1>4, <1>5 DEF FlagsSeated, IdleRoom, CountdownHasPlayers
  <1>10. RunningRoom'
    BY <1>1, <1>2, <1>3, <1>5 DEF RunningRoom
  <1>11. NoCardTwice' /\ NobodyPlaysWithoutCards' /\ HandHasOpponents'
    BY <1>1, <1>2, <1>5 DEF NoCardTwice, NobodyPlaysWithoutCards, HandHasOpponents
  <1>12. TurnHolderCanMove' /\ OwnerIsNotAsked'
    <2>1. Departed = {} => ~(Seated \subseteq isDisconnected)
      BY <1>1 DEF TurnHolderCanMove, InRange, SeatAt, Active, Seated
    <2>2. QED
      BY <1>1, <1>2, <1>5, <1>6, <2>1 DEF TurnHolderCanMove, OwnerIsNotAsked, Active
  <1>13. QED
    BY <1>7, <1>8, <1>9, <1>10, <1>11, <1>12

(* A disconnection passes, or ends the hand.                               *)
LEMMA DisconnectStep ==
  ASSUME IInv, NEW p \in Player, onPlayerDisconnect(p)
  PROVE  IInv'
  <1> USE DEF IInv
  <1> DEFINE gone == isDisconnected \cup {p}
             passed == hasPassed \cup {p}
  <1>1. CASE removePlayer(p)
    BY <1>1, RemovePlayerStep
  <1>2. ASSUME NEW winner \in Active \ {p}, handleWin(winner, 2, gone, "WAITING")
        PROVE  IInv'
    BY <1>2, WonStep
  <1>3. ASSUME state = "PLAYING", p \in Active, Cardinality(Active \ {p}) # 1,
               isDisconnected' = gone,
               \/ nextTurnIndex(passed, gone, lastTurnOwnerId, boardCards)
               \/ /\ ~HoldsTurn(p)
                  /\ hasPassed' = passed
                  /\ UNCHANGED turnVars,
               UNCHANGED <<seats, isReady, hand, phaseVars, moneyVars>>
        PROVE  IInv'
    <2>1. /\ seats' = seats /\ isReady' = isReady /\ hand' = hand
          /\ state' = state /\ startingScheduled' = startingScheduled
          /\ lockedForJoin' = lockedForJoin
          /\ wallet' = wallet /\ unsettled' = unsettled
          /\ refused' = refused /\ elsewhere' = elsewhere
      BY <1>3 DEF phaseVars, moneyVars
    <2>2. Seated' = Seated /\ Active' = Active \ {p} /\ Departed' = Departed
      BY <1>3, <2>1 DEF Seated, Active, Departed
    <2>3. seats \in Seq(Player) /\ Len(seats) >= 1 /\ currentPlayerIndex \in Int
          /\ Len(seats) <= MaxPlayers /\ Seated \subseteq Player /\ p \in Seated
      BY <1>3 DEF TypeOK, RunningRoom, Seated, Active
    <2>4. Departed = {} => Cardinality(Active \ {p}) >= 2
      <3>1. IsFiniteSet(Active)
        BY <2>3, FS_Subset, GameAssumption DEF Active
      <3>2. Cardinality(Active \ {p}) = Cardinality(Active) - 1
        BY <1>3, <3>1, FS_RemoveElement
      <3>3. Cardinality(Active) \in Nat
        BY <3>1, FS_CardinalityType
      <3>4. Departed = {} => Cardinality(Active) >= 2
        BY <1>3 DEF HandHasOpponents
      <3>5. QED
        BY <1>3, <3>2, <3>3, <3>4
    <2>5. Departed = {} => ~(Seated \subseteq gone)
      <3>1. Cardinality({}) = 0
        BY FS_EmptySet
      <3>2. Departed = {} => Cardinality(Active \ {p}) # Cardinality({})
        BY <2>4, <3>1
      <3>3. Departed = {} => Active \ {p} # {}
        BY <3>2, Zenon
      <3>4. QED
        BY <3>3 DEF Active
    <2>6. /\ hasPassed' \subseteq passed
          /\ currentPlayerIndex' \in -1..(MaxPlayers - 1)
          /\ currentPlayerIndex' >= 0
          /\ lastTurnOwnerId' \in {lastTurnOwnerId, NoPlayer}
          /\ boardCards' \in {boardCards, {}}
          /\ TurnHolderCanMove'
          /\ OwnerIsNotAsked'
      <3>1. CASE nextTurnIndex(passed, gone, lastTurnOwnerId, boardCards)
        <4>1. /\ currentPlayerIndex' \in 0..(Len(seats) - 1)
              /\ hasPassed' \subseteq passed
              /\ \/ /\ lastTurnOwnerId' = lastTurnOwnerId
                    /\ boardCards' = boardCards
                    /\ SeatAt(currentPlayerIndex') # lastTurnOwnerId
                 \/ lastTurnOwnerId' = NoPlayer /\ boardCards' = {}
              /\ \/ Seated \subseteq gone
                 \/ SeatAt(currentPlayerIndex') \notin gone \cup hasPassed'
          <5> HIDE DEF passed, gone
          <5>1. QED
            BY <2>3, <3>1, NextTurn
        <4>2. SeatAt(currentPlayerIndex)' = SeatAt(currentPlayerIndex') /\ InRange'
              /\ SeatAt(currentPlayerIndex') \in Seated
          BY <2>1, <2>3, <4>1 DEF SeatAt, InRange, Seated
        <4>3. currentPlayerIndex' \in -1..(MaxPlayers - 1) /\ currentPlayerIndex' >= 0
          BY <2>3, <4>1, GameAssumption
        <4>4. TurnHolderCanMove' /\ OwnerIsNotAsked'
          BY <1>3, <2>1, <2>2, <2>5, <4>1, <4>2
             DEF TurnHolderCanMove, OwnerIsNotAsked, Active
        <4>5. QED
          BY <4>1, <4>3, <4>4
      <3>2. CASE ~HoldsTurn(p) /\ hasPassed' = passed /\ UNCHANGED turnVars
        <4>1. /\ currentPlayerIndex' = currentPlayerIndex
              /\ lastTurnOwnerId' = lastTurnOwnerId
              /\ boardCards' = boardCards
              /\ SeatAt(currentPlayerIndex)' = SeatAt(currentPlayerIndex)
              /\ InRange' = InRange
          BY <2>1, <3>2 DEF turnVars, SeatAt, InRange
        <4>2. TurnHolderCanMove'
          BY <1>3, <2>1, <2>2, <3>2, <4>1 DEF TurnHolderCanMove, HoldsTurn, Active
        <4>3. OwnerIsNotAsked'
          BY <1>3, <2>1, <2>2, <4>1 DEF OwnerIsNotAsked
        <4>4. QED
          BY <1>3, <3>2, <4>1, <4>2, <4>3 DEF TypeOK, RunningRoom
      <3>3. QED
        BY <1>3, <3>1, <3>2
    <2>7. TypeOK'
      BY <1>3, <2>1, <2>3, <2>6 DEF TypeOK
    <2>8. SeatsDistinct' /\ SeatedCanPay' /\ NobodyIsOverdrawn' /\ HandsBounded'
      BY <2>1, <2>2 DEF SeatsDistinct, SeatedCanPay, minRequired, NobodyIsOverdrawn,
         HandsBounded
    <2>9. FlagsSeated' /\ IdleRoom' /\ CountdownHasPlayers'
      BY <1>3, <2>1, <2>2, <2>3, <2>6 DEF FlagsSeated, IdleRoom, CountdownHasPlayers
    <2>10. RunningRoom'
      BY <1>3, <2>1, <2>2, <2>3, <2>6 DEF RunningRoom
    <2>11. NoCardTwice' /\ NobodyPlaysWithoutCards'
      BY <2>1, <2>2, <2>6 DEF NoCardTwice, NobodyPlaysWithoutCards
    <2>12. HandHasOpponents'
      BY <2>2, <2>4 DEF HandHasOpponents
    <2>13. QED
      BY <2>6, <2>7, <2>8, <2>9, <2>10, <2>11, <2>12
  <1>4. QED
    <2>1. p \in Active => Seated \ gone = Active \ {p}
      BY DEF Active
    <2>2. QED
      BY <1>1, <1>2, <1>3, <2>1 DEF onPlayerDisconnect, countActivePlayers

(* What another room and the wheel do to a balance is set down.            *)
LEMMA ElsewhereStep ==
  ASSUME IInv, NEW p \in Player, PlayElsewhere(p)
  PROVE  IInv'
  <1> USE DEF IInv
  <1>1. PICK amount \in OtherAmounts :
          /\ wallet' = [wallet EXCEPT ![p] = @ + amount]
          /\ elsewhere' = [elsewhere EXCEPT ![p] = @ + amount]
          /\ UNCHANGED <<roomVars, unsettled, refused>>
    BY DEF PlayElsewhere
  <1>2. amount \in Int
    BY GameAssumption
  <1>3. /\ seats' = seats /\ isReady' = isReady /\ hasPassed' = hasPassed
        /\ isDisconnected' = isDisconnected /\ hand' = hand
        /\ currentPlayerIndex' = currentPlayerIndex
        /\ lastTurnOwnerId' = lastTurnOwnerId /\ boardCards' = boardCards
        /\ state' = state /\ startingScheduled' = startingScheduled
        /\ lockedForJoin' = lockedForJoin
        /\ unsettled' = unsettled /\ refused' = refused
    BY <1>1 DEF roomVars, flags, turnVars, phaseVars
  <1>4. /\ wallet' \in [Player -> Int] /\ elsewhere' \in [Player -> Int]
        /\ \A q \in Player : wallet'[q] - elsewhere'[q] = wallet[q] - elsewhere[q]
    <2>1. wallet \in [Player -> Int] /\ elsewhere \in [Player -> Int]
      BY DEF TypeOK
    <2>2. wallet' \in [Player -> Int] /\ elsewhere' \in [Player -> Int]
      BY <1>1, <1>2, <2>1
    <2>3. wallet'[p] - elsewhere'[p] = wallet[p] - elsewhere[p]
      BY <1>1, <1>2, <2>1
    <2>4. \A q \in Player \ {p} : wallet'[q] = wallet[q] /\ elsewhere'[q] = elsewhere[q]
      BY <1>1, <2>1
    <2>5. QED
      BY <2>2, <2>3, <2>4
  <1>5. Seated' = Seated /\ Active' = Active /\ Departed' = Departed
        /\ InRange' = InRange
        /\ SeatAt(currentPlayerIndex)' = SeatAt(currentPlayerIndex)
    BY <1>3 DEF Seated, Active, Departed, InRange, SeatAt
  <1>6. TypeOK'
    BY <1>3, <1>4 DEF TypeOK
  <1>7. SeatedCanPay' /\ NobodyIsOverdrawn'
    <2>1. Seated \subseteq Player
      BY DEF TypeOK, Seated
    <2>2. QED
      BY <1>4, <1>5, <2>1 DEF SeatedCanPay, NobodyIsOverdrawn, minRequired
  <1>8. /\ SeatsDistinct' /\ FlagsSeated' /\ IdleRoom' /\ RunningRoom'
        /\ CountdownHasPlayers' /\ NoCardTwice'
    BY <1>3, <1>5 DEF SeatsDistinct, FlagsSeated, IdleRoom, RunningRoom,
       CountdownHasPlayers, NoCardTwice
  <1>9. /\ TurnHolderCanMove' /\ OwnerIsNotAsked' /\ NobodyPlaysWithoutCards'
        /\ HandHasOpponents' /\ HandsBounded'
    BY <1>3, <1>5 DEF TurnHolderCanMove, OwnerIsNotAsked, NobodyPlaysWithoutCards,
       HandHasOpponents, HandsBounded
  <1>10. QED
    BY <1>6, <1>7, <1>8, <1>9

----------------------------------------------------------------------------
(* Every message, broken connection and timer keeps the invariant.         *)
LEMMA NextIInv == IInv /\ [Next]_vars => IInv'
  <1> SUFFICES ASSUME IInv, [Next]_vars PROVE IInv'
    OBVIOUS
  <1>1. ASSUME NEW p \in Player, addPlayer(p) PROVE IInv'
    BY <1>1, AddPlayerStep
  <1>2. ASSUME NEW p \in Player, removePlayer(p) PROVE IInv'
    BY <1>2, RemovePlayerStep
  <1>3. ASSUME NEW p \in Player, onPlayerDisconnect(p) PROVE IInv'
    BY <1>3, DisconnectStep
  <1>4. ASSUME NEW p \in Player, NEW ready \in BOOLEAN, setPlayerReady(p, ready)
        PROVE  IInv'
    BY <1>4, SetReadyStep
  <1>5. ASSUME NEW p \in Player, NEW cards, playCards(p, cards) PROVE IInv'
    BY <1>5, PlayCardsStep
  <1>6. ASSUME NEW p \in Player, passTurn(p) PROVE IInv'
    BY <1>6, PassTurnStep
  <1>7. CASE startPlayingPhase
    BY <1>7, StartStep
  <1>8. CASE TurnTimeout
    BY <1>6, <1>8 DEF TurnTimeout
  <1>9. CASE UNCHANGED vars
    <2>1. Seated' = Seated /\ Active' = Active /\ Departed' = Departed
          /\ InRange' = InRange
          /\ SeatAt(currentPlayerIndex)' = SeatAt(currentPlayerIndex)
      BY <1>9 DEF vars, roomVars, moneyVars, flags, turnVars, phaseVars, Seated, Active,
         Departed, InRange, SeatAt
    <2>2. QED
      BY <1>9, <2>1 DEF vars, roomVars, moneyVars, flags, turnVars, phaseVars, IInv, TypeOK, SeatsDistinct,
         FlagsSeated, IdleRoom, RunningRoom, CountdownHasPlayers, NoCardTwice,
         TurnHolderCanMove, OwnerIsNotAsked, NobodyPlaysWithoutCards, HandHasOpponents,
         SeatedCanPay, minRequired, HandsBounded, NobodyIsOverdrawn
  <1>10. ASSUME NEW p \in Player, PlayElsewhere(p) PROVE IInv'
    BY <1>10, ElsewhereStep
  <1>11. CASE Crash
    BY <1>11, ClearedRoom DEF Crash, moneyVars, IInv, TypeOK, NobodyIsOverdrawn
  <1>12. QED
    BY <1>1, <1>2, <1>3, <1>4, <1>5, <1>6, <1>7, <1>8, <1>9, <1>10, <1>11 DEF Next

(* The inductive invariant holds in every state of every room.             *)
THEOREM Invariance == Spec => []IInv
  BY InitIInv, NextIInv, PTL DEF Spec

(* Every variable keeps its type; in particular the turn index never       *)
(* exceeds the number of seats a room may have (nextTurnIndex).            *)
THEOREM TypesAreKept == Spec => []TypeOK
  <1>1. IInv => TypeOK
    BY DEF IInv
  <1>2. QED
    BY <1>1, Invariance, PTL

(* Deals, plays, departures and settlements never put a card in two places *)
(* or leave one with a player without a seat (playCards, removePlayer).    *)
THEOREM CardsAreUnique == Spec => []NoCardTwice
  <1>1. IInv => NoCardTwice
    BY DEF IInv
  <1>2. QED
    BY <1>1, Invariance, PTL

(* Until somebody gives up a seat, the turn is with a connected player who *)
(* is still in the trick (nextTurnIndex, onPlayerDisconnect).              *)
THEOREM TurnsAreUsable == Spec => []TurnHolderCanMove
  <1>1. IInv => TurnHolderCanMove
    BY DEF IInv
  <1>2. QED
    BY <1>1, Invariance, PTL

(* The table and the owner of the trick go together, and nobody has to     *)
(* beat the own combination (nextTurnIndex, playCards).                    *)
THEOREM OwnersAreNotAsked == Spec => []OwnerIsNotAsked
  <1>1. IInv => OwnerIsNotAsked
    BY DEF IInv
  <1>2. QED
    BY <1>1, Invariance, PTL

(* The play that empties a hand ends the game (playCards, handleWin).      *)
THEOREM HandsAreNotEmpty == Spec => []NobodyPlaysWithoutCards
  <1>1. IInv => NobodyPlaysWithoutCards
    BY DEF IInv
  <1>2. QED
    BY <1>1, Invariance, PTL

(* Until somebody gives up a seat, a running hand has two connected        *)
(* players (onPlayerDisconnect).                                           *)
THEOREM OpponentsRemain == Spec => []HandHasOpponents
  <1>1. IInv => HandHasOpponents
    BY DEF IInv
  <1>2. QED
    BY <1>1, Invariance, PTL

(* Only a waiting room with two connected seats counts down                *)
(* (setPlayerReady, removePlayer, update).                                 *)
THEOREM CountdownsAreOpen == Spec => []CountdownHasPlayers
  <1>1. IInv => CountdownHasPlayers
    BY DEF IInv
  <1>2. QED
    BY <1>1, Invariance, PTL

(* For every bet, ten bets for cards and one for leaving are covered by    *)
(* what addPlayer asks for: whatever other rooms and the wheel do to the   *)
(* balance, and whichever UPDATEs fail, it is below zero by no more than   *)
(* what they took while the player had the seat (addPlayer, handleWin).    *)
THEOREM BalancesSuffice == Spec => []NobodyIsOverdrawn
  <1>1. IInv => NobodyIsOverdrawn
    BY DEF IInv
  <1>2. QED
    BY <1>1, Invariance, PTL

(* A player with cards owes the bet at least.                              *)
LEMMA LosersOwe ==
  ASSUME IInv, NEW q \in Player, hand[q] # {}, NEW reason, NEW gone
  PROVE  Loss(q, reason, gone) >= Bet
  <1>1. Bet \in Nat /\ RoomType \in {"dem_la", "dat_cuoc"}
    BY GameAssumption
  <1>2. Cardinality(hand[q]) \in Nat /\ Cardinality(hand[q]) # 0
    <2>1. hand[q] \subseteq Card
      BY DEF IInv, TypeOK
    <2>2. IsFiniteSet(hand[q])
      BY <2>1, RulesAssumption, FS_Subset
    <2>3. Cardinality(hand[q]) # 0
      BY <2>2, FS_EmptySet
    <2>4. QED
      BY <2>2, <2>3, FS_CardinalityType
  <1>3. PICK c \in Nat : c = Cardinality(hand[q])
    BY <1>2
  <1>4. c * Bet \in Nat /\ c * Bet >= Bet
    <2>1. \A m, b \in Nat : (m + 1) * b = m * b + b /\ m * b \in Nat
      OBVIOUS
    <2>2. c - 1 \in Nat /\ c = (c - 1) + 1
      BY <1>2, <1>3
    <2>3. c * Bet = (c - 1) * Bet + Bet /\ (c - 1) * Bet \in Nat
      BY <1>1, <2>1, <2>2
    <2>4. QED
      BY <1>1, <2>3
  <1>5. PICK extra \in Nat : extra = (IF reason = 2 /\ q \in gone THEN Bet ELSE 0)
    BY <1>1
  <1>6. Loss(q, reason, gone) = (IF RoomType = "dem_la" THEN c * Bet ELSE Bet) + extra
    BY <1>3, <1>5 DEF Loss
  <1>7. QED
    BY <1>1, <1>4, <1>5, <1>6

(* In a settlement whoever is booked, but the winner, pays at least the    *)
(* bet.                                                                    *)
LEMMA LosersPay ==
  ASSUME IInv, state = "PLAYING", NEW winner \in Seated, NEW reason, NEW gone, NEW st,
         handleWin(winner, reason, gone, st)
  PROVE  \A p \in Seated \ ({winner} \cup unsettled') : wallet'[p] <= wallet[p] - Bet
  <1> SUFFICES ASSUME NEW p \in Seated, p # winner, p \notin unsettled'
               PROVE  wallet'[p] <= wallet[p] - Bet
    OBVIOUS
  <1>1. p \in Player /\ hand[p] # {} /\ wallet[p] \in Int /\ Bet \in Nat
    <2>1. p \in Player
      <3>1. seats \in Seq(Player)
        BY DEF IInv, TypeOK
      <3>2. QED
        BY <3>1 DEF Seated
    <2>2. hand[p] # {}
      BY DEF IInv, NobodyPlaysWithoutCards
    <2>3. wallet \in [Player -> Int]
      BY DEF IInv, TypeOK
    <2>4. QED
      BY <2>1, <2>2, <2>3, GameAssumption
  <1>0. PICK reached \in {Seated} \cup Reached(winner) :
        \E booked \in SUBSET reached :
          SettleHand(winner, reason, gone, booked)
    BY DEF handleWin
  <1>2. PICK booked \in SUBSET reached :
          SettleHand(winner, reason, gone, booked)
    BY <1>0
  <1>3. p \in booked
    BY <1>2 DEF SettleHand, IInv, RunningRoom
  <1>4. wallet'[p] = wallet[p] - Loss(p, reason, gone)
    BY <1>1, <1>2, <1>3 DEF SettleHand
  <1>5. Loss(p, reason, gone) \in Nat /\ Loss(p, reason, gone) >= Bet
    BY <1>1, LossIsCovered, LosersOwe
  <1>6. QED
    BY <1>1, <1>4, <1>5

(* When a hand of several seats ends, every seat but the winner's has paid *)
(* the bet, with cards in hand or disconnected, except those whose UPDATE  *)
(* failed or was not reached (handleWin).                                  *)
THEOREM LosersAlwaysPay == Spec => EverySeatedLoserPays
  <1> DEFINE Paid == \E winner \in Seated : \A p \in Seated \ ({winner} \cup unsettled') :
                       wallet'[p] <= wallet[p] - Bet
             Ends == /\ state = "PLAYING" /\ state' # "PLAYING"
                     /\ Cardinality(Seated) >= 2
  <1>1. ASSUME IInv, [Next]_vars, Ends PROVE Paid
    <2>1. ASSUME NEW p \in Player, removePlayer(p) PROVE FALSE
      <3>1. Seated \ {p} = {}
        BY <1>1, <2>1 DEF removePlayer
      <3>2. PICK S : S = {p}
        OBVIOUS
      <3>3. IsFiniteSet(S) /\ Cardinality(S) = 1 /\ Seated \subseteq S
        BY <3>1, <3>2, FS_Singleton
      <3>4. IsFiniteSet(Seated) /\ Cardinality(Seated) <= 1
        BY <3>3, FS_Subset
      <3>5. Cardinality(Seated) \in Nat
        BY <3>4, FS_CardinalityType
      <3>6. QED
        BY <1>1, <3>4, <3>5
    <2>2. ASSUME NEW p \in Player, NEW cards, playCards(p, cards) PROVE Paid
      <3>1. handleWin(p, 1, isDisconnected, "FINISHED")
        BY <1>1, <2>2 DEF playCards, phaseVars
      <3>2. p \in Seated
        <4>1. Len(seats) \in Nat /\ currentPlayerIndex \in 0..(Len(seats) - 1)
              /\ seats[currentPlayerIndex + 1] = p
          BY <1>1, <2>2 DEF playCards, HoldsTurn, InRange, SeatAt, IInv, TypeOK
        <4>2. QED
          BY <4>1 DEF Seated
      <3>3. QED
        BY <1>1, <3>1, <3>2, LosersPay
    <2>3. ASSUME NEW p \in Player, onPlayerDisconnect(p) PROVE Paid
      <3>1. PICK winner \in Active \ {p} :
              handleWin(winner, 2, isDisconnected \cup {p}, "WAITING")
        BY <1>1, <2>1, <2>3 DEF onPlayerDisconnect, phaseVars
      <3>2. winner \in Seated
        BY DEF Active
      <3>3. QED
        BY <1>1, <3>1, <3>2, LosersPay
    <2>4. \A p \in Player : ~addPlayer(p) /\ ~passTurn(p) /\ ~PlayElsewhere(p)
      BY <1>1 DEF addPlayer, passTurn, PlayElsewhere, roomVars, phaseVars
    <2>5. \A p \in Player, ready \in BOOLEAN : ~setPlayerReady(p, ready)
      BY <1>1 DEF setPlayerReady
    <2>6. ~startPlayingPhase /\ ~TurnTimeout /\ ~UNCHANGED vars
      BY <1>1, <2>4 DEF startPlayingPhase, TurnTimeout, vars, roomVars, phaseVars
    <2>7. CASE Crash
      <3>1. Seated \subseteq unsettled'
        BY <1>1, <2>7 DEF Crash, moneyVars, IInv, RunningRoom
      <3>2. Seated # {}
        <4>1. Cardinality({}) # Cardinality(Seated)
          BY <1>1, FS_EmptySet
        <4>2. QED
          BY <4>1, Zenon
      <3>3. QED
        BY <3>1, <3>2
    <2>8. QED
      BY <1>1, <2>1, <2>2, <2>3, <2>4, <2>5, <2>6, <2>7 DEF Next
  <1>2. IInv /\ [Next]_vars => [Ends => Paid]_vars
    BY <1>1
  <1>3. QED
    BY <1>2, Invariance, PTL DEF Spec, EverySeatedLoserPays

----------------------------------------------------------------------------
(* Sums over finite sets.                                                  *)

(* The naturals by induction, for a set in place of a formula.             *)
LEMMA NaturalsBySteps ==
  ASSUME NEW Good \in SUBSET Nat, 0 \in Good, \A n \in Good : n + 1 \in Good
  PROVE  Good = Nat
  <1> SUFFICES ASSUME Nat \ Good # {} PROVE FALSE
    OBVIOUS
  <1>1. PICK m \in Nat \ Good : \A k \in Nat \ Good : <<k, m>> \notin OpToRel(<, Nat)
    BY NatLessThanWellFounded, WFMin
  <1>2. \A k \in Nat \ Good : ~(k < m)
    BY <1>1 DEF OpToRel
  <1>3. m # 0 /\ m - 1 \in Nat /\ m - 1 < m
    OBVIOUS
  <1>4. m - 1 \in Good /\ (m - 1) + 1 = m
    BY <1>2, <1>3
  <1>5. QED
    BY <1>4

(* MapThenSumSet adds the elements of a set in the order of CHOOSE, by a   *)
(* recursive function over the subsets.                                    *)
Chosen(s) == CHOOSE x \in s : TRUE

SumStep(g, f, s) == IF s = {} THEN 0 ELSE f[Chosen(s)] + g[s \ {Chosen(s)}]

Sums(f, S) == CHOOSE g : g = [s \in SUBSET S |-> SumStep(g, f, s)]

(* MapThenSumSet, expanded.                                                *)
LEMMA FoldIsSums ==
  ASSUME NEW f, NEW S
  PROVE  MapThenSumSet(LAMBDA p : f[p], S) = Sums(f, S)[S]
  BY DEF MapThenSumSet, MapThenFoldSet, Sums, SumStep, Chosen

(* A subset without its chosen element.                                    *)
LEMMA Smaller ==
  ASSUME NEW S, IsFiniteSet(S), NEW s \in SUBSET S, s # {}
  PROVE  /\ Chosen(s) \in s /\ s \ {Chosen(s)} \in SUBSET S
         /\ IsFiniteSet(s) /\ Cardinality(s) \in Nat \ {0}
         /\ Cardinality(s \ {Chosen(s)}) = Cardinality(s) - 1
  <1>1. Chosen(s) \in s
    BY DEF Chosen
  <1>2. IsFiniteSet(s)
    BY FS_Subset
  <1>3. Cardinality(s) \in Nat \ {0}
    BY <1>2, FS_CardinalityType, FS_EmptySet
  <1>4. Cardinality(s \ {Chosen(s)}) = Cardinality(s) - 1
    BY <1>1, <1>2, FS_RemoveElement
  <1>5. QED
    BY <1>1, <1>2, <1>3, <1>4

(* All subsets of a finite set, by adding the chosen element.              *)
LEMMA SubsetsBySteps ==
  ASSUME NEW S, IsFiniteSet(S), NEW Good \in SUBSET SUBSET S, {} \in Good,
         \A s \in SUBSET S : s # {} /\ s \ {Chosen(s)} \in Good => s \in Good
  PROVE  Good = SUBSET S
  <1> DEFINE N == {n \in Nat : \A s \in SUBSET S : Cardinality(s) = n => s \in Good}
  <1>1. 0 \in N
    <2>1. ASSUME NEW s \in SUBSET S, Cardinality(s) = 0 PROVE s \in Good
      BY <2>1, FS_Subset, FS_EmptySet
    <2>2. QED
      BY <2>1
  <1>2. ASSUME NEW n \in N PROVE n + 1 \in N
    <2>1. ASSUME NEW s \in SUBSET S, Cardinality(s) = n + 1 PROVE s \in Good
      <3>1. s # {}
        BY <2>1, FS_EmptySet
      <3>2. s \ {Chosen(s)} \in SUBSET S /\ Cardinality(s \ {Chosen(s)}) = n
        BY <2>1, <3>1, Smaller
      <3>3. QED
        BY <3>1, <3>2
    <2>2. QED
      BY <2>1
  <1> HIDE DEF N
  <1>3. N = Nat
    <2>1. N \in SUBSET Nat
      BY DEF N
    <2>2. QED
      BY <1>1, <1>2, <2>1, NaturalsBySteps
  <1>4. ASSUME NEW s \in SUBSET S PROVE s \in Good
    <2>1. Cardinality(s) \in N
      BY <1>3, FS_Subset, FS_CardinalityType
    <2>2. QED
      BY <2>1 DEF N
  <1>5. QED
    BY <1>4

(* The recursive definition of the sum defines a function.                 *)
LEMMA SumsDefined ==
  ASSUME NEW S, IsFiniteSet(S), NEW f \in [S -> Int]
  PROVE  Sums(f, S) = [s \in SUBSET S |-> SumStep(Sums(f, S), f, s)]
  <1> DEFINE Solves(g, n) == \A s \in SUBSET S : Cardinality(s) <= n => g[s] = SumStep(g, f, s)
             N == {n \in Nat : \E g \in [SUBSET S -> Int] : Solves(g, n)}
             Better(g) == [s \in SUBSET S |-> SumStep(g, f, s)]
  <1>1. ASSUME NEW g \in [SUBSET S -> Int] PROVE Better(g) \in [SUBSET S -> Int]
    <2>1. ASSUME NEW s \in SUBSET S PROVE SumStep(g, f, s) \in Int
      <3>1. CASE s = {}
        BY <3>1 DEF SumStep
      <3>2. CASE s # {}
        <4>1. Chosen(s) \in S /\ s \ {Chosen(s)} \in SUBSET S
          BY <3>2, Smaller
        <4>2. f[Chosen(s)] \in Int /\ g[s \ {Chosen(s)}] \in Int
          BY <1>1, <4>1
        <4>3. QED
          BY <3>2, <4>2 DEF SumStep
      <3>3. QED
        BY <3>1, <3>2
    <2>2. QED
      BY <2>1
  <1>2. 0 \in N
    <2> DEFINE g0 == [s \in SUBSET S |-> 0]
    <2>1. ASSUME NEW s \in SUBSET S, Cardinality(s) <= 0 PROVE g0[s] = SumStep(g0, f, s)
      <3>1. s = {}
        BY <2>1, FS_Subset, FS_CardinalityType, FS_EmptySet
      <3>2. QED
        BY <3>1 DEF SumStep
    <2>2. g0 \in [SUBSET S -> Int] /\ Solves(g0, 0)
      BY <2>1
    <2> HIDE DEF Solves, g0
    <2>3. QED
      BY <2>2
  <1>3. ASSUME NEW n \in N PROVE n + 1 \in N
    <2>1. PICK g \in [SUBSET S -> Int] : Solves(g, n)
      OBVIOUS
    <2>2. ASSUME NEW s \in SUBSET S, Cardinality(s) <= n + 1
          PROVE  Better(g)[s] = SumStep(Better(g), f, s)
      <3>1. CASE s = {}
        BY <3>1 DEF SumStep
      <3>2. CASE s # {}
        <4> DEFINE t == s \ {Chosen(s)}
        <4>1. t \in SUBSET S /\ Cardinality(t) <= n
          BY <2>2, <3>2, Smaller
        <4>2. Better(g)[t] = g[t]
          BY <2>1, <4>1
        <4>3. QED
          BY <3>2, <4>2 DEF SumStep
      <3>3. QED
        BY <3>1, <3>2
    <2>3. Better(g) \in [SUBSET S -> Int] /\ Solves(Better(g), n + 1)
      BY <1>1, <2>2
    <2> HIDE DEF Solves, Better
    <2>4. QED
      BY <2>3
  <1>4. Cardinality(S) \in N
    <2> HIDE DEF N
    <2>1. N \in SUBSET Nat
      BY DEF N
    <2>2. N = Nat
      BY <1>2, <1>3, <2>1, NaturalsBySteps
    <2>3. QED
      BY <2>2, FS_CardinalityType
  <1>5. PICK g \in [SUBSET S -> Int] : Solves(g, Cardinality(S))
    BY <1>4
  <1>6. \A s \in SUBSET S : g[s] = SumStep(g, f, s)
    BY <1>5, FS_Subset
  <1>7. g = [s \in SUBSET S |-> SumStep(g, f, s)]
    BY <1>6
  <1>8. QED
    BY <1>7 DEF Sums

(* What the sums over the subsets are.                                     *)
LEMMA SumFacts ==
  ASSUME NEW S, IsFiniteSet(S), NEW f \in [S -> Int]
  PROVE  /\ Sums(f, S)[{}] = 0
         /\ \A s \in SUBSET S : Sums(f, S)[s] \in Int
         /\ \A s \in SUBSET S : s # {} =>
              /\ Chosen(s) \in s /\ f[Chosen(s)] \in Int
              /\ s \ {Chosen(s)} \in SUBSET S
              /\ Sums(f, S)[s] = f[Chosen(s)] + Sums(f, S)[s \ {Chosen(s)}]
  <1> DEFINE g == Sums(f, S)
             Good == {s \in SUBSET S : g[s] \in Int}
  <1>1. g = [s \in SUBSET S |-> SumStep(g, f, s)]
    BY SumsDefined
  <1> HIDE DEF g
  <1>2. g[{}] = 0
    BY <1>1 DEF SumStep
  <1>3. ASSUME NEW s \in SUBSET S, s # {}
        PROVE  /\ Chosen(s) \in s /\ f[Chosen(s)] \in Int
               /\ s \ {Chosen(s)} \in SUBSET S
               /\ g[s] = f[Chosen(s)] + g[s \ {Chosen(s)}]
    <2>1. Chosen(s) \in s /\ s \ {Chosen(s)} \in SUBSET S
      BY <1>3, Smaller
    <2>2. g[s] = SumStep(g, f, s)
      BY <1>1
    <2>3. QED
      BY <1>3, <2>1, <2>2 DEF SumStep
  <1>4. Good = SUBSET S
    <2>1. {} \in Good
      BY <1>2
    <2>2. \A s \in SUBSET S : s # {} /\ s \ {Chosen(s)} \in Good => s \in Good
      BY <1>3
    <2>3. Good \in SUBSET SUBSET S
      OBVIOUS
    <2> HIDE DEF Good
    <2>4. QED
      BY <2>1, <2>2, <2>3, SubsetsBySteps
  <1>5. \A s \in SUBSET S : g[s] \in Int
    BY <1>4
  <1>6. QED
    BY <1>2, <1>3, <1>5 DEF g

(* Sums add up.                                                            *)
LEMMA SumOfTwo ==
  ASSUME NEW S, IsFiniteSet(S), NEW f \in [S -> Int], NEW g \in [S -> Int],
         NEW h \in [S -> Int], \A p \in S : h[p] = f[p] + g[p]
  PROVE  Sums(h, S)[S] = Sums(f, S)[S] + Sums(g, S)[S]
  <1> DEFINE F == Sums(f, S)
             G == Sums(g, S)
             H == Sums(h, S)
             Good == {s \in SUBSET S : H[s] = F[s] + G[s]}
  <1>1. /\ F[{}] = 0
        /\ \A s \in SUBSET S : F[s] \in Int
        /\ \A s \in SUBSET S : s # {} => F[s] = f[Chosen(s)] + F[s \ {Chosen(s)}]
    BY SumFacts
  <1>2. /\ G[{}] = 0
        /\ \A s \in SUBSET S : G[s] \in Int
        /\ \A s \in SUBSET S : s # {} => G[s] = g[Chosen(s)] + G[s \ {Chosen(s)}]
    BY SumFacts
  <1>3. /\ H[{}] = 0
        /\ \A s \in SUBSET S : s # {} => H[s] = h[Chosen(s)] + H[s \ {Chosen(s)}]
    BY SumFacts
  <1> HIDE DEF F, G, H
  <1>4. {} \in Good
    BY <1>1, <1>2, <1>3
  <1>5. ASSUME NEW s \in SUBSET S, s # {}, s \ {Chosen(s)} \in Good PROVE s \in Good
    <2> DEFINE x == Chosen(s)
               t == s \ {x}
    <2>1. x \in S /\ t \in SUBSET S
      BY <1>5, Smaller
    <2>2. F[s] = f[x] + F[t] /\ G[s] = g[x] + G[t] /\ H[s] = h[x] + H[t]
      BY <1>1, <1>2, <1>3, <1>5
    <2> HIDE DEF x, t
    <2>3. f[x] \in Int /\ g[x] \in Int /\ F[t] \in Int /\ G[t] \in Int /\ h[x] = f[x] + g[x]
      BY <1>1, <1>2, <2>1
    <2>4. H[t] = F[t] + G[t]
      BY <1>5 DEF t, x
    <2>5. H[s] = F[s] + G[s]
      BY <2>2, <2>3, <2>4
    <2>6. QED
      BY <2>5
  <1>6. Good \in SUBSET SUBSET S
    OBVIOUS
  <1> HIDE DEF Good
  <1>7. Good = SUBSET S
    BY <1>4, <1>5, <1>6, SubsetsBySteps
  <1>8. QED
    BY <1>7 DEF Good, F, G, H

(* One summand that is not zero is the sum.                                *)
LEMMA SumOfOne ==
  ASSUME NEW S, IsFiniteSet(S), NEW f \in [S -> Int], NEW a \in S,
         \A p \in S \ {a} : f[p] = 0
  PROVE  Sums(f, S)[S] = f[a]
  <1> DEFINE F == Sums(f, S)
             Good == {s \in SUBSET S : F[s] = IF a \in s THEN f[a] ELSE 0}
  <1>1. /\ F[{}] = 0
        /\ \A s \in SUBSET S : s # {} => F[s] = f[Chosen(s)] + F[s \ {Chosen(s)}]
    BY SumFacts
  <1> HIDE DEF F
  <1>2. {} \in Good
    BY <1>1
  <1>3. ASSUME NEW s \in SUBSET S, s # {}, s \ {Chosen(s)} \in Good PROVE s \in Good
    <2> DEFINE x == Chosen(s)
               t == s \ {x}
    <2>1. x \in s /\ x \in S /\ t \in SUBSET S
      BY <1>3, Smaller
    <2>2. F[s] = f[x] + F[t] /\ F[t] = IF a \in t THEN f[a] ELSE 0
      BY <1>1, <1>3
    <2>3. a \in t <=> a \in s /\ a # x
      OBVIOUS
    <2> HIDE DEF x, t
    <2>4. f[x] \in Int /\ f[a] \in Int /\ (x # a => f[x] = 0)
      BY <2>1
    <2>5. F[s] = IF a \in s THEN f[a] ELSE 0
      BY <2>1, <2>2, <2>3, <2>4
    <2>6. QED
      BY <2>5
  <1>4. Good \in SUBSET SUBSET S
    OBVIOUS
  <1> HIDE DEF Good
  <1>5. Good = SUBSET S
    BY <1>2, <1>3, <1>4, SubsetsBySteps
  <1>6. QED
    BY <1>5 DEF Good, F

(* b pays a the amount c.                                                  *)
Transfer(f, S, a, b, c) ==
  [p \in S |-> f[p] + (IF p = a THEN c ELSE 0) - (IF p = b THEN c ELSE 0)]

(* What one pays and another gets leaves the sum as it was.                *)
LEMMA TransferKeepsSum ==
  ASSUME NEW S, IsFiniteSet(S), NEW f \in [S -> Int],
         NEW a \in S, NEW b \in S, NEW c \in Int
  PROVE  /\ Transfer(f, S, a, b, c) \in [S -> Int]
         /\ Sums(Transfer(f, S, a, b, c), S)[S] = Sums(f, S)[S]
  <1> DEFINE g    == Transfer(f, S, a, b, c)
             up   == [p \in S |-> IF p = a THEN c ELSE 0]
             down == [p \in S |-> IF p = b THEN 0 - c ELSE 0]
             h    == [p \in S |-> f[p] + up[p]]
  <1>1. up \in [S -> Int] /\ down \in [S -> Int] /\ h \in [S -> Int] /\ g \in [S -> Int]
    BY DEF Transfer
  <1>2. up[a] = c /\ \A p \in S \ {a} : up[p] = 0
    OBVIOUS
  <1>3. down[b] = 0 - c /\ \A p \in S \ {b} : down[p] = 0
    OBVIOUS
  <1>4. \A p \in S : h[p] = f[p] + up[p]
    OBVIOUS
  <1>5. \A p \in S : g[p] = h[p] + down[p]
    BY DEF Transfer
  <1> HIDE DEF up, down, h, g
  <1>6. Sums(up, S)[S] = c /\ Sums(down, S)[S] = 0 - c
    BY <1>1, <1>2, <1>3, SumOfOne
  <1>7. Sums(h, S)[S] = Sums(f, S)[S] + Sums(up, S)[S]
    BY <1>1, <1>4, SumOfTwo
  <1>8. Sums(g, S)[S] = Sums(h, S)[S] + Sums(down, S)[S]
    BY <1>1, <1>5, SumOfTwo
  <1>9. Sums(f, S)[S] \in Int
    BY SumFacts
  <1>10. QED
    BY <1>1, <1>6, <1>7, <1>8, <1>9 DEF g

----------------------------------------------------------------------------
(* A settlement that is booked whole is four transfers, one for each seat  *)
(* a room may have: what the winner gets for the seat is what its player   *)
(* pays.                                                                   *)
LEMMA SettleKeepsTotal ==
  ASSUME IInv, NEW winner \in Seated, NEW reason, NEW gone,
         SettleHand(winner, reason, gone, Seated)
  PROVE  Sums(wallet', Player)[Player] = Sums(wallet, Player)[Player]
  <1> DEFINE n == Len(seats)
             D(i) == Due(i, winner, reason, gone)
             L(p) == Loss(p, reason, gone)
             payer(i) == IF i < n THEN SeatAt(i) ELSE winner
             After(w, i) == Transfer(w, Player, winner, payer(i), D(i))
             w1 == After(wallet, 0)
             w2 == After(w1, 1)
             w3 == After(w2, 2)
             w4 == After(w3, 3)
  <1>1. /\ seats \in Seq(Player) /\ n \in Nat /\ n <= 4 /\ IsFiniteSet(Player)
        /\ wallet \in [Player -> Int]
    BY GameAssumption DEF IInv, TypeOK
  <1>2. \A i \in 0..3 : i < n => SeatAt(i) \in Seated
    <2>1. ASSUME NEW i \in 0..3, i < n PROVE i + 1 \in 1..n
      BY <1>1, <2>1
    <2>2. QED
      BY <2>1 DEF SeatAt, Seated
  <1>3. Seated \subseteq Player
    BY <1>1 DEF Seated
  <1>4. \A p \in Player : L(p) \in Int
    BY LossIsCovered
  <1>5. ASSUME NEW i \in 0..3
        PROVE  /\ payer(i) \in Seated
               /\ D(i) = IF i < n /\ payer(i) # winner THEN L(payer(i)) ELSE 0
    BY <1>2 DEF Due
  <1>6. ASSUME NEW i \in 0..3, NEW j \in 0..3, i < n, j < n, payer(i) = payer(j)
        PROVE  i = j
    <2>1. i + 1 \in 1..n /\ j + 1 \in 1..n
      BY <1>1, <1>6
    <2>2. seats[i + 1] = seats[j + 1]
      BY <1>6 DEF SeatAt
    <2>3. i + 1 = j + 1
      BY <2>1, <2>2 DEF IInv, SeatsDistinct
    <2>4. QED
      BY <2>3
  <1>7. ASSUME NEW p \in Seated PROVE \E i \in 0..3 : i < n /\ payer(i) = p
    <2>1. PICK k \in 1..n : seats[k] = p
      BY DEF Seated
    <2>2. k - 1 \in 0..3 /\ k - 1 < n /\ (k - 1) + 1 = k
      BY <1>1
    <2>3. QED
      BY <2>1, <2>2 DEF SeatAt
  <1> HIDE DEF D, L, payer, n
  <1>8. \A i \in 0..3 : D(i) \in Int
    BY <1>3, <1>4, <1>5
  <1>9. ASSUME NEW w \in [Player -> Int], NEW i \in 0..3
        PROVE  /\ After(w, i) \in [Player -> Int]
               /\ Sums(After(w, i), Player)[Player] = Sums(w, Player)[Player]
    <2>1. D(i) \in Int /\ payer(i) \in Player /\ winner \in Player
      BY <1>3, <1>5, <1>8
    <2>2. PICK c \in Int, loser \in Player : c = D(i) /\ loser = payer(i)
      BY <2>1
    <2>3. IsFiniteSet(Player) /\ winner \in Player
      BY <1>1, <2>1
    <2>4. Transfer(w, Player, winner, loser, c) \in [Player -> Int]
      BY <2>3, TransferKeepsSum
    <2>5. Sums(Transfer(w, Player, winner, loser, c), Player)[Player] = Sums(w, Player)[Player]
      BY <2>3, TransferKeepsSum
    <2>6. QED
      BY <2>2, <2>4, <2>5
  <1>10. /\ w1 \in [Player -> Int] /\ w2 \in [Player -> Int]
         /\ w3 \in [Player -> Int] /\ w4 \in [Player -> Int]
         /\ Sums(w4, Player)[Player] = Sums(wallet, Player)[Player]
    <2> HIDE DEF After
    <2>1. w1 \in [Player -> Int] /\ Sums(w1, Player)[Player] = Sums(wallet, Player)[Player]
      BY <1>1, <1>9
    <2>2. w2 \in [Player -> Int] /\ Sums(w2, Player)[Player] = Sums(w1, Player)[Player]
      BY <1>9, <2>1
    <2>3. w3 \in [Player -> Int] /\ Sums(w3, Player)[Player] = Sums(w2, Player)[Player]
      BY <1>9, <2>2
    <2>4. w4 \in [Player -> Int] /\ Sums(w4, Player)[Player] = Sums(w3, Player)[Player]
      BY <1>9, <2>3
    <2>5. QED
      BY <2>1, <2>2, <2>3, <2>4
  <1>11. wallet' = [p \in Player |->
                      IF p \notin Seated THEN wallet[p]
                      ELSE IF p = winner THEN wallet[p] + (D(0) + D(1) + D(2) + D(3))
                      ELSE wallet[p] - L(p)]
    BY DEF SettleHand, D, L
  <1>12. ASSUME NEW p \in Player PROVE wallet'[p] = w4[p]
    <2> DEFINE pay(i) == IF p = payer(i) THEN D(i) ELSE 0
               get(i) == IF p = winner THEN D(i) ELSE 0
    <2>1. w4[p] = wallet[p] + get(0) - pay(0) + get(1) - pay(1)
                            + get(2) - pay(2) + get(3) - pay(3)
      BY DEF Transfer
    <2>2. \A i \in 0..3 : pay(i) \in Int /\ get(i) \in Int
      BY <1>8
    <2>3. CASE p = winner
      <3>1. \A i \in 0..3 : pay(i) = 0 /\ get(i) = D(i)
        BY <1>5, <2>3
      <3>2. wallet'[p] = wallet[p] + (D(0) + D(1) + D(2) + D(3))
        BY <1>11, <2>3
      <3> HIDE DEF pay, get
      <3>3. QED
        BY <1>1, <1>8, <2>1, <3>1, <3>2
    <2>4. CASE p # winner /\ p \in Seated
      <3>1. PICK j \in 0..3 : j < n /\ payer(j) = p
        BY <1>7, <2>4
      <3>2. pay(j) = L(p)
        BY <1>5, <2>4, <3>1
      <3>3. \A i \in 0..3 \ {j} : pay(i) = 0
        BY <1>5, <1>6, <2>4, <3>1
      <3>4. \A i \in 0..3 : get(i) = 0
        BY <2>4
      <3>5. wallet'[p] = wallet[p] - L(p)
        BY <1>11, <2>4
      <3> HIDE DEF pay, get
      <3>6. QED
        BY <1>1, <1>4, <2>1, <3>1, <3>2, <3>3, <3>4, <3>5
    <2>5. CASE p \notin Seated
      <3>1. \A i \in 0..3 : pay(i) = 0 /\ get(i) = 0
        BY <1>5, <2>5
      <3>2. wallet'[p] = wallet[p]
        BY <1>11, <2>5
      <3> HIDE DEF pay, get
      <3>3. QED
        BY <1>1, <2>1, <3>1, <3>2
    <2>6. QED
      BY <2>3, <2>4, <2>5
  <1> HIDE DEF w4
  <1>13. wallet' = w4
    BY <1>10, <1>11, <1>12
  <1>14. QED
    BY <1>10, <1>13

(* Smaller numbers have a smaller sum.                                     *)
LEMMA SumOfLess ==
  ASSUME NEW S, IsFiniteSet(S), NEW f \in [S -> Int], NEW g \in [S -> Int],
         \A p \in S : f[p] <= g[p]
  PROVE  Sums(f, S)[S] <= Sums(g, S)[S]
  <1> DEFINE F == Sums(f, S)
             G == Sums(g, S)
             Good == {s \in SUBSET S : F[s] <= G[s]}
  <1>1. /\ F[{}] = 0
        /\ \A s \in SUBSET S : F[s] \in Int
        /\ \A s \in SUBSET S : s # {} => F[s] = f[Chosen(s)] + F[s \ {Chosen(s)}]
    BY SumFacts
  <1> HIDE DEF F
  <1>2. /\ G[{}] = 0
        /\ \A s \in SUBSET S : G[s] \in Int
        /\ \A s \in SUBSET S : s # {} => G[s] = g[Chosen(s)] + G[s \ {Chosen(s)}]
    BY ONLY IsFiniteSet(S), g \in [S -> Int], SumFacts
  <1> HIDE DEF G
  <1>3. {} \in Good
    BY <1>1, <1>2
  <1>4. ASSUME NEW s \in SUBSET S, s # {}, s \ {Chosen(s)} \in Good PROVE s \in Good
    <2> DEFINE x == Chosen(s)
               t == s \ {x}
    <2>1. x \in S /\ t \in SUBSET S
      BY <1>4, Smaller
    <2>2. F[s] = f[x] + F[t] /\ G[s] = g[x] + G[t]
      BY <1>1, <1>2, <1>4
    <2> HIDE DEF x, t
    <2>3. f[x] \in Int /\ g[x] \in Int /\ F[t] \in Int /\ G[t] \in Int /\ f[x] <= g[x]
      BY <1>1, <1>2, <2>1
    <2>4. F[t] <= G[t]
      BY <1>4 DEF t, x
    <2>5. F[s] <= G[s]
      BY <2>2, <2>3, <2>4
    <2>6. QED
      BY <2>5
  <1>5. Good \in SUBSET SUBSET S
    OBVIOUS
  <1> HIDE DEF Good
  <1>6. Good = SUBSET S
    BY <1>3, <1>4, <1>5, SubsetsBySteps
  <1>7. QED
    BY <1>6 DEF Good, F, G

(* What handleWin does to the balances together when no UPDATE fails.      *)
LEMMA WinMakesNoMoney ==
  ASSUME IInv, state = "PLAYING", NEW winner \in Seated, NEW reason, NEW gone, NEW st,
         handleWin(winner, reason, gone, st), refused' = {}
  PROVE  /\ Total(wallet') <= Total(wallet)
         /\ unsettled' \cap Seated = {} => Total(wallet') = Total(wallet)
  <1>0. PICK reached \in {Seated} \cup Reached(winner) :
        \E booked \in SUBSET reached :
          /\ SettleHand(winner, reason, gone, booked)
          /\ refused' = reached \ booked
    BY DEF handleWin
  <1>1. PICK booked \in SUBSET reached :
          /\ SettleHand(winner, reason, gone, booked)
          /\ refused' = reached \ booked
    BY <1>0
  <1>2. /\ SettleHand(winner, reason, gone, reached)
        /\ reached \subseteq Seated
        /\ reached # Seated => winner \notin reached
    <2>1. booked = reached
      BY <1>1
    <2>2. SettleHand(winner, reason, gone, booked)
      BY <1>1
    <2>3. /\ reached \subseteq Seated
          /\ reached # Seated => winner \notin reached
      BY <1>0, ReachedAreSeated
    <2>4. QED
      BY <2>1, <2>2, <2>3
  <1>3. /\ Total(wallet) = Sums(wallet, Player)[Player]
        /\ Total(wallet') = Sums(wallet', Player)[Player]
    BY FoldIsSums DEF Total
  <1>4. /\ IsFiniteSet(Player) /\ Seated \subseteq Player
        /\ wallet \in [Player -> Int] /\ wallet' \in [Player -> Int]
    <2>1. IsFiniteSet(Player) /\ Seated \subseteq Player
      BY GameAssumption, SeatedArePlayers
    <2>2. wallet \in [Player -> Int]
      BY DEF IInv, TypeOK
    <2>3. reached \in SUBSET Seated
      BY <1>2
    <2>4. wallet' \in [Player -> Int]
      BY <1>2, <2>3, Settled
    <2>5. QED
      BY <2>1, <2>2, <2>4
  <1>5. Sums(wallet, Player)[Player] \in Int
    BY <1>4, SumFacts
  <1>6. CASE reached = Seated
    <2>1. Sums(wallet', Player)[Player] = Sums(wallet, Player)[Player]
      BY <1>2, <1>6, SettleKeepsTotal
    <2>2. QED
      BY <1>3, <1>5, <2>1
  <1>7. CASE winner \notin reached
    <2>1. ASSUME NEW p \in Player PROVE wallet'[p] <= wallet[p]
      <3>1. wallet[p] \in Int /\ Loss(p, reason, gone) \in Nat
        BY <1>4, LossIsCovered
      <3>2. wallet'[p] = IF p \notin reached THEN wallet[p]
                         ELSE wallet[p] - Loss(p, reason, gone)
        BY <1>2, <1>7 DEF SettleHand
      <3>3. QED
        BY <3>1, <3>2
    <2>2. Sums(wallet', Player)[Player] <= Sums(wallet, Player)[Player]
      BY <1>4, <2>1, SumOfLess
    <2>3. winner \in unsettled'
      BY <1>2, <1>7 DEF SettleHand, IInv, RunningRoom
    <2>4. QED
      BY <1>3, <2>2, <2>3
  <1>8. QED
    BY <1>2, <1>6, <1>7

(* For every number of players, bets and cards, leavers and                *)
(* disconnections: what the losers pay is what the winner gets, and a      *)
(* process that ends on the way makes no money, since the winner is paid   *)
(* last; it takes a failed UPDATE to make any (handleWin).                 *)
THEOREM MoneyStays == Spec => MoneyIsConserved
  <1> DEFINE Ends == state = "PLAYING" /\ state' # "PLAYING" /\ refused' = {}
             Kept == /\ Total(wallet') <= Total(wallet)
                     /\ unsettled' \cap Seated = {} => Total(wallet') = Total(wallet)
  <1>1. ASSUME IInv, Next, Ends PROVE Kept
    <2>0. Total(wallet) \in Int
      <3>1. Total(wallet) = Sums(wallet, Player)[Player]
        BY FoldIsSums DEF Total
      <3>2. IsFiniteSet(Player) /\ wallet \in [Player -> Int] /\ Player \in SUBSET Player
        BY <1>1, GameAssumption DEF IInv, TypeOK
      <3>3. Sums(wallet, Player)[Player] \in Int
        BY <3>2, SumFacts
      <3>4. QED
        BY <3>1, <3>3
    <2>1. ASSUME wallet' = wallet PROVE Kept
      BY <2>0, <2>1
    <2>2. ASSUME NEW p \in Player, NEW cards, playCards(p, cards) PROVE Kept
      <3>1. handleWin(p, 1, isDisconnected, "FINISHED")
        BY <1>1, <2>2 DEF playCards, phaseVars
      <3>2. p \in Seated
        <4>1. Len(seats) \in Nat /\ currentPlayerIndex \in 0..(Len(seats) - 1)
              /\ seats[currentPlayerIndex + 1] = p
          BY <1>1, <2>2 DEF playCards, HoldsTurn, InRange, SeatAt, IInv, TypeOK
        <4>2. QED
          BY <4>1 DEF Seated
      <3>3. QED
        BY <1>1, <3>1, <3>2, WinMakesNoMoney
    <2>3. ASSUME NEW p \in Player, onPlayerDisconnect(p) PROVE Kept
      <3>1. \/ wallet' = wallet
            \/ \E winner \in Active \ {p} :
                 handleWin(winner, 2, isDisconnected \cup {p}, "WAITING")
        BY <2>3 DEF onPlayerDisconnect, removePlayer, moneyVars
      <3>2. Active \subseteq Seated
        BY DEF Active
      <3>3. QED
        BY <1>1, <2>1, <3>1, <3>2, WinMakesNoMoney
    <2>4. ASSUME NEW p \in Player, removePlayer(p) PROVE wallet' = wallet
      BY <2>4 DEF removePlayer, moneyVars
    <2>5. \A p \in Player : ~addPlayer(p) /\ ~passTurn(p) /\ ~PlayElsewhere(p)
      BY <1>1 DEF addPlayer, passTurn, PlayElsewhere, roomVars, phaseVars
    <2>6. \A p \in Player, ready \in BOOLEAN : ~setPlayerReady(p, ready)
      BY <1>1 DEF setPlayerReady
    <2>7. ~startPlayingPhase /\ ~TurnTimeout
      BY <1>1, <2>5 DEF startPlayingPhase, TurnTimeout
    <2>8. Crash => wallet' = wallet
      BY DEF Crash, moneyVars
    <2>9. QED
      BY <1>1, <2>1, <2>2, <2>3, <2>4, <2>5, <2>6, <2>7, <2>8 DEF Next
  <1> HIDE DEF Kept
  <1>2. IInv /\ [Next]_vars => [Ends => Kept]_vars
    BY <1>1
  <1>3. QED
    BY <1>2, Invariance, PTL DEF Spec, MoneyIsConserved, Kept

----------------------------------------------------------------------------
(* The refinement of Room.                                                 *)

abstract == [seated |-> Seated, gone |-> isDisconnected, phase |-> state]

Record == [seated : SUBSET Player, gone : SUBSET Player,
           phase : {"WAITING", "PLAYING", "FINISHED"}]

(* The record that stands for the room is one of RoomStates.               *)
LEMMA AbstractType == IInv => abstract \in Record
  BY DEF IInv, TypeOK, FlagsSeated, abstract, Record, Seated

(* RoomStates counts with its own instance of Cardinality.                 *)
LEMMA SameCount == \A S : AsRoom!Cardinality(S) = Cardinality(S)
  BY DEF AsRoom!Cardinality, Cardinality, AsRoom!IsFiniteSet, IsFiniteSet

(* What the operators of RoomStates do, field by field.                    *)
LEMMA RoomOperators ==
  ASSUME NEW g \in Record, NEW p \in Player
  PROVE  /\ AsRoom!WithPlayer(g, p)
              = [seated |-> g.seated \cup {p}, gone |-> g.gone, phase |-> g.phase]
         /\ g.seated \ {p} # {} =>
              AsRoom!WithoutPlayer(g, p)
                = [seated |-> g.seated \ {p}, gone |-> g.gone \ {p}, phase |-> g.phase]
         /\ [g EXCEPT !.gone = @ \cup {p}]
              = [seated |-> g.seated, gone |-> g.gone \cup {p}, phase |-> g.phase]
  <1>1. AsRoom!WithPlayer(g, p)
          = [seated |-> g.seated \cup {p}, gone |-> g.gone, phase |-> g.phase]
    BY DEF Record, AsRoom!WithPlayer
  <1>2. ASSUME g.seated \ {p} # {}
        PROVE  AsRoom!WithoutPlayer(g, p)
          = [seated |-> g.seated \ {p}, gone |-> g.gone \ {p}, phase |-> g.phase]
    <2>1. AsRoom!WithoutPlayer(g, p) = [g EXCEPT !.seated = @ \ {p}, !.gone = @ \ {p}]
      BY <1>2 DEF AsRoom!WithoutPlayer
    <2>2. QED
      BY <2>1 DEF Record
  <1>3. [g EXCEPT !.gone = @ \cup {p}]
          = [seated |-> g.seated, gone |-> g.gone \cup {p}, phase |-> g.phase]
    BY DEF Record
  <1>4. QED
    BY <1>1, <1>2, <1>3

(* What a start and a reopening make of the record.                        *)
LEMMA PhaseOperators ==
  ASSUME NEW g \in Record
  PROVE  /\ AsRoom!Started(g)
              = [seated |-> g.seated, gone |-> g.gone, phase |-> "PLAYING"]
         /\ AsRoom!Reopened(g)
              = [seated |-> g.seated, gone |-> g.gone, phase |-> "WAITING"]
  BY DEF Record, AsRoom!Started, AsRoom!Reopened

(* The fields of the record.                                               *)
LEMMA AbstractFields ==
  abstract.seated = Seated /\ abstract.gone = isDisconnected /\ abstract.phase = state
  BY DEF abstract

(* The seats are counted by the length of the vector.                      *)
LEMMA SeatsCounted ==
  ASSUME seats \in Seq(Player), SeatsDistinct
  PROVE  IsFiniteSet(Seated) /\ Cardinality(Seated) = Len(seats)
  <1> DEFINE n == Len(seats)
             f == [k \in 1..n |-> seats[k]]
  <1>1. n \in Nat
    OBVIOUS
  <1>2. f \in Bijection(1..n, Seated)
    <2>1. f \in [1..n -> Seated]
      BY DEF Seated
    <2>2. \A i, j \in 1..n : f[i] = f[j] => i = j
      BY DEF SeatsDistinct
    <2>3. \A p \in Seated : \E i \in 1..n : f[i] = p
      BY DEF Seated
    <2> HIDE DEF f, n
    <2>4. QED
      BY <2>1, <2>2, <2>3 DEF Bijection, Injection, Surjection, IsInjective
  <1>3. ExistsBijection(1..n, Seated)
    BY <1>2 DEF ExistsBijection
  <1>4. QED
    BY <1>1, <1>3, FS_NatBijection, FS_CountingElements

(* An empty room is a fresh record.                                        *)
LEMMA RoomInit == Init => AsRoom!Init
  <1> SUFFICES ASSUME Init PROVE abstract = AsRoom!Fresh
    BY DEF AsRoom!Init, abstract
  <1>1. Seated = {}
    BY DEF Init, Seated
  <1>2. QED
    BY <1>1 DEF Init, abstract, AsRoom!Fresh

(* The object after handleWin or games.erase.                              *)
LEMMA ClearedIsFresh ==
  ASSUME NEW st, ClearTable(st)
  PROVE  abstract' = [seated |-> {}, gone |-> {}, phase |-> st]
  <1>1. Seated' = {}
    BY DEF ClearTable, Seated
  <1>2. QED
    BY <1>1 DEF ClearTable, abstract

(* addPlayer is a player's coming in.                                      *)
LEMMA EnterStep ==
  ASSUME IInv, NEW p \in Player, addPlayer(p)
  PROVE  AsRoom!Enter(p)
  <1>1. seats \in Seq(Player) /\ seats' = Append(seats, p)
    BY DEF IInv, TypeOK, addPlayer
  <1>2. Seated' = Seated \cup {p}
    BY <1>1 DEF Seated
  <1>3. Cardinality(Seated) < MaxPlayers
    BY SeatsCounted DEF IInv, TypeOK, addPlayer
  <1>4. abstract' = AsRoom!WithPlayer(abstract, p)
    <2>1. AsRoom!WithPlayer(abstract, p)
            = [seated |-> Seated \cup {p}, gone |-> isDisconnected, phase |-> state]
      BY AbstractType, AbstractFields, RoomOperators
    <2>2. QED
      BY <1>2, <2>1 DEF addPlayer, flags, phaseVars, abstract
  <1>5. QED
    BY <1>3, <1>4, AbstractFields, SameCount
       DEF abstract, addPlayer, isJoinAllowed, AsRoom!Enter, AsRoom!MayEnter

(* removePlayer takes the player out of the record.                        *)
LEMMA LeaveStep ==
  ASSUME IInv, NEW p \in Player, removePlayer(p)
  PROVE  abstract' = AsRoom!WithoutPlayer(abstract, p)
  <1>1. CASE Seated \ {p} = {} /\ ClearTable("WAITING")
    BY <1>1, ClearedIsFresh DEF abstract, AsRoom!WithoutPlayer, AsRoom!Fresh
  <1>2. CASE /\ p \in Seated
             /\ Seated # {p}
             /\ seats' = SeatsWithout(p)
             /\ isDisconnected' = isDisconnected \ {p}
             /\ state' = state
    <2>1. Seated' = Seated \ {p}
      <3>1. /\ Len(SeatsWithout(p)) = Len(seats) - 1
            /\ {SeatsWithout(p)[k] : k \in 1..(Len(seats) - 1)} = Seated \ {p}
        BY <1>2, SeatsWithoutPlayer DEF IInv, TypeOK
      <3>2. Seated' = {SeatsWithout(p)[k] : k \in 1..Len(SeatsWithout(p))}
        BY <1>2 DEF Seated
      <3>3. QED
        BY <3>1, <3>2
    <2>2. Seated \ {p} # {}
      BY <1>2
    <2>3. AsRoom!WithoutPlayer(abstract, p)
            = [seated |-> Seated \ {p}, gone |-> isDisconnected \ {p}, phase |-> state]
      BY <2>2, AbstractType, AbstractFields, RoomOperators
    <2>4. QED
      BY <1>2, <2>1, <2>3 DEF abstract
  <1>3. QED
    BY <1>1, <1>2 DEF removePlayer

(* A broken connection between hands, ending a hand, or within one.        *)
LEMMA BreakStep ==
  ASSUME IInv, NEW p \in Player, onPlayerDisconnect(p)
  PROVE  AsRoom!Break(p)
  <1>0. state \in {"WAITING", "PLAYING", "FINISHED"}
    BY DEF IInv, TypeOK
  <1>a. Active \ {p} = Seated \ (isDisconnected \cup {p}) /\ Active = Seated \ isDisconnected
    BY DEF Active
  <1>b. AsRoom!Connected(abstract) = Active
    BY <1>a, AbstractFields DEF AsRoom!Connected
  <1>c. AsRoom!Cardinality(Active \ {p}) = countActivePlayers(isDisconnected \cup {p})
    BY <1>a, SameCount DEF countActivePlayers
  <1> HIDE DEF abstract
  <1>1. CASE state \in {"WAITING", "FINISHED"} /\ removePlayer(p)
    <2>1. AsRoom!WithoutConnection(abstract, p) = AsRoom!WithoutPlayer(abstract, p)
      BY <1>1, AbstractFields DEF AsRoom!WithoutConnection
    <2>2. QED
      BY <1>1, <2>1, LeaveStep DEF AsRoom!Break, abstract
  <1>2. CASE /\ state = "PLAYING" /\ p \in Active
             /\ countActivePlayers(isDisconnected \cup {p}) = 1
             /\ ClearTable("WAITING")
    <2>1. AsRoom!WithoutConnection(abstract, p) = AsRoom!Fresh
      BY <1>2, <1>b, <1>c, AbstractFields DEF AsRoom!WithoutConnection
    <2>2. abstract' = AsRoom!Fresh
      BY <1>2, ClearedIsFresh DEF AsRoom!Fresh
    <2>3. QED
      BY <2>1, <2>2 DEF AsRoom!Break, abstract
  <1>3. CASE /\ state = "PLAYING" /\ p \in Active
             /\ countActivePlayers(isDisconnected \cup {p}) # 1
             /\ isDisconnected' = isDisconnected \cup {p}
             /\ seats' = seats /\ state' = state
    <2>1. AsRoom!WithoutConnection(abstract, p) = [abstract EXCEPT !.gone = @ \cup {p}]
      BY <1>3, <1>b, <1>c, AbstractFields DEF AsRoom!WithoutConnection
    <2>2. AsRoom!WithoutConnection(abstract, p)
            = [seated |-> Seated, gone |-> isDisconnected \cup {p}, phase |-> state]
      BY <2>1, AbstractType, AbstractFields, RoomOperators
    <2>3. Seated' = Seated
      BY <1>3 DEF Seated
    <2>4. QED
      BY <1>3, <2>2, <2>3 DEF AsRoom!Break, abstract
  <1>4. QED
    BY <1>1, <1>2, <1>3, WinClears DEF onPlayerDisconnect, phaseVars

(* The deal is the start of a hand.                                        *)
LEMMA HandStep ==
  ASSUME IInv, startPlayingPhase
  PROVE  AsRoom!Start
  <1>1. Cardinality(Seated) >= 2
    BY SeatsCounted DEF IInv, TypeOK, CountdownHasPlayers, startPlayingPhase
  <1>2. Seated' = Seated
    BY DEF startPlayingPhase, Seated
  <1>3. AsRoom!Started(abstract)
          = [seated |-> Seated, gone |-> isDisconnected, phase |-> "PLAYING"]
    BY AbstractType, AbstractFields, PhaseOperators
  <1>4. abstract' = AsRoom!Started(abstract)
    BY <1>2, <1>3 DEF startPlayingPhase, abstract
  <1>5. AsRoom!MayStart(abstract)
    BY <1>1, AbstractFields, SameCount DEF startPlayingPhase, AsRoom!MayStart
  <1>6. QED
    BY <1>4, <1>5 DEF abstract, AsRoom!Start

(* The ready flags are not in the record; the phase may reopen.            *)
LEMMA ReadyStep ==
  ASSUME IInv, NEW p \in Player, NEW ready \in BOOLEAN, setPlayerReady(p, ready)
  PROVE  AsRoom!Reopen \/ UNCHANGED abstract
  <1>1. Seated' = Seated
    BY DEF setPlayerReady, Seated
  <1>2. AsRoom!Reopened(abstract)
          = [seated |-> Seated, gone |-> isDisconnected, phase |-> "WAITING"]
    BY AbstractType, AbstractFields, PhaseOperators
  <1>3. abstract' = AsRoom!Reopened(abstract)
    BY <1>1, <1>2 DEF setPlayerReady, abstract
  <1>4. QED
    BY <1>1, <1>3 DEF IInv, TypeOK, setPlayerReady, abstract, AsRoom!Reopen

(* The end of the process is the end of the room.                          *)
LEMMA StopStep ==
  ASSUME ClearTable("WAITING")
  PROVE  AsRoom!Stop
  BY ClearedIsFresh DEF abstract, AsRoom!Stop, AsRoom!Fresh

(* Only the play that ends the hand shows in the record.                   *)
LEMMA PlayStep ==
  ASSUME NEW p \in Player, NEW cards, playCards(p, cards)
  PROVE  AsRoom!End(p) \/ AsRoom!Stop \/ UNCHANGED abstract
  <1>1. p \in Seated /\ state = "PLAYING"
    BY DEF playCards, HoldsTurn, InRange, SeatAt, Seated
  <1>2. CASE ClearTable("FINISHED")
    BY <1>1, <1>2, ClearedIsFresh DEF abstract, AsRoom!End, AsRoom!Ended
  <1>3. CASE UNCHANGED <<seats, isDisconnected, state>>
    BY <1>3 DEF abstract, Seated
  <1>4. QED
    BY <1>2, <1>3, StopStep, WinClears DEF playCards, phaseVars

(* A pass does not show in the record.                                     *)
LEMMA PassStep ==
  ASSUME NEW p \in Player, passTurn(p)
  PROVE  UNCHANGED abstract
  BY DEF passTurn, phaseVars, abstract, Seated

(* Every step of the game is a step of the room or invisible to it.        *)
LEMMA RoomStep == IInv /\ [Next]_vars => [AsRoom!Next]_abstract
  <1> SUFFICES ASSUME IInv, [Next]_vars PROVE AsRoom!Next \/ UNCHANGED abstract
    OBVIOUS
  <1>1. ASSUME NEW p \in Player, addPlayer(p) PROVE AsRoom!Next
    BY <1>1, EnterStep DEF AsRoom!Next
  <1>2. ASSUME NEW p \in Player, removePlayer(p) PROVE AsRoom!Next
    BY <1>2, LeaveStep DEF AsRoom!Next, AsRoom!Leave, abstract
  <1>3. ASSUME NEW p \in Player, onPlayerDisconnect(p) PROVE AsRoom!Next
    BY <1>3, BreakStep DEF AsRoom!Next
  <1>4. ASSUME NEW p \in Player, NEW ready \in BOOLEAN, setPlayerReady(p, ready)
        PROVE  AsRoom!Next \/ UNCHANGED abstract
    BY <1>4, ReadyStep DEF AsRoom!Next
  <1>5. ASSUME NEW p \in Player, NEW cards, playCards(p, cards)
        PROVE  AsRoom!Next \/ UNCHANGED abstract
    BY <1>5, PlayStep DEF AsRoom!Next
  <1>6. ASSUME NEW p \in Player, passTurn(p) PROVE UNCHANGED abstract
    BY <1>6, PassStep
  <1>7. CASE startPlayingPhase
    BY <1>7, HandStep DEF AsRoom!Next
  <1>8. CASE UNCHANGED vars
    BY <1>8 DEF vars, roomVars, flags, turnVars, phaseVars, abstract, Seated
  <1>9. ASSUME NEW p \in Player, PlayElsewhere(p) PROVE UNCHANGED abstract
    BY <1>9 DEF PlayElsewhere, roomVars, flags, phaseVars, abstract, Seated
  <1>10. CASE Crash
    BY <1>10, StopStep DEF Crash, AsRoom!Next
  <1>11. QED
    BY <1>1, <1>2, <1>3, <1>4, <1>5, <1>6, <1>7, <1>8, <1>9, <1>10 DEF Next, TurnTimeout

(* Seats are taken, given up and kept, and hands begin and end, only as    *)
(* Room allows: GameHandler's record of a room loses nothing it needs      *)
(* (addPlayer, removePlayer, onPlayerDisconnect, handleWin).               *)
THEOREM GameImplementsRoom == Spec => ImplementsRoom
  <1>1. Init => AsRoom!Init
    BY RoomInit
  <1>2. IInv /\ [Next]_vars => [AsRoom!Next]_abstract
    BY RoomStep
  <1>3. Spec => []IInv
    BY Invariance
  <1>4. QED
    BY <1>1, <1>2, <1>3, PTL DEF Spec, ImplementsRoom, AsRoom!Spec, abstract

----------------------------------------------------------------------------
(* The refinement of TurnOrder.                                            *)

(* What TurnOrder sees as the turn.                                        *)
Turn == IF state = "PLAYING" /\ InRange THEN SeatAt(currentPlayerIndex) ELSE NoPlayer

(* Going round the ring: the sum of an index and a step, and the distance  *)
(* between two indices.                                                    *)
LEMMA RoundTheRing ==
  ASSUME NEW n \in Nat \ {0}, NEW c \in 0..(n - 1)
  PROVE  /\ \A k \in 1..n : (c + k) % n = IF c + k < n THEN c + k ELSE c + k - n
         /\ \A i, j \in 1..n : (j - i) % n = IF i <= j THEN j - i ELSE j - i + n
  OBVIOUS

(* An index counted from 0, as a position counted from 1.                  *)
LEMMA NextOfIndex ==
  ASSUME NEW n \in Nat, NEW i \in 0..(n - 1)
  PROVE  i + 1 \in 1..n
  OBVIOUS

(* Each player of the vector has one position, and each position one.      *)
LEMMA SeatFacts ==
  ASSUME IInv
  PROVE  /\ seats \in Seq(Player) /\ Len(seats) \in Nat
         /\ Seated \subseteq Player
         /\ \A i \in 1..Len(seats) : seats[i] \in Seated
         /\ \A i \in 1..Len(seats) : Turns!Position(seats[i]) = i
         /\ \A p \in Seated : /\ Turns!Position(p) \in 1..Len(seats)
                              /\ seats[Turns!Position(p)] = p
  <1>1. seats \in Seq(Player)
    BY DEF IInv, TypeOK
  <1>2. Len(seats) \in Nat /\ \A i \in 1..Len(seats) : seats[i] \in Player
    BY <1>1
  <1>3. Seated \subseteq Player /\ \A i \in 1..Len(seats) : seats[i] \in Seated
    BY <1>2 DEF Seated
  <1>4. ASSUME NEW p \in Seated
        PROVE  Turns!Position(p) \in 1..Len(seats) /\ seats[Turns!Position(p)] = p
    <2>1. \E i \in 1..Len(seats) : seats[i] = p
      BY DEF Seated
    <2>2. QED
      BY <2>1 DEF Turns!Position
  <1>5. ASSUME NEW i \in 1..Len(seats) PROVE Turns!Position(seats[i]) = i
    BY <1>3, <1>4 DEF IInv, SeatsDistinct
  <1>6. QED
    BY <1>1, <1>2, <1>3, <1>4, <1>5

(* Who sits how far: the element that a step of the walk of nextTurnIndex  *)
(* reaches is that many seats away from where the walk began.              *)
LEMMA Walk ==
  ASSUME IInv, state = "PLAYING", InRange,
         NEW p, p = SeatAt(currentPlayerIndex), NEW n, n = Len(seats)
  PROVE  LET After(k) == (currentPlayerIndex + k) % n
         IN  /\ n \in Nat \ {0}
             /\ p \in Seated
             /\ \A k \in 1..n : After(k) \in 0..(n - 1) /\ SeatAt(After(k)) \in Seated
             /\ SeatAt(After(n)) = p
             /\ \A k \in 1..(n - 1) : /\ SeatAt(After(k)) # p
                                      /\ Turns!Distance(p, SeatAt(After(k))) = k
             /\ \A q \in Seated \ {p} : \E k \in 1..(n - 1) : SeatAt(After(k)) = q
  <1> DEFINE After(k) == (currentPlayerIndex + k) % n
             c == currentPlayerIndex
             Round(k) == IF c + k < n THEN c + k ELSE c + k - n
  <1>1. n \in Nat \ {0} /\ c \in 0..(n - 1)
    BY SeatFacts DEF InRange
  <1>2. p = seats[c + 1] /\ c + 1 \in 1..n /\ p \in Seated /\ Turns!Position(p) = c + 1
    BY <1>1, SeatFacts DEF SeatAt
  <1>3. \A k \in 1..n : After(k) = Round(k)
    BY <1>1, RoundTheRing
  <1> HIDE DEF After, c
  <1>4. \A k \in 1..n : After(k) \in 0..(n - 1)
    BY <1>1, <1>3
  <1>5. \A k \in 1..n : SeatAt(After(k)) \in Seated
                        /\ Turns!Position(SeatAt(After(k))) = After(k) + 1
    BY <1>1, <1>4, SeatFacts DEF SeatAt
  <1>6. SeatAt(After(n)) = p
    <2>1. n \in 1..n /\ Round(n) = c
      BY <1>1
    <2>2. After(n) = c
      BY <1>3, <2>1
    <2>3. QED
      BY <1>2, <2>2 DEF SeatAt
  <1>7. ASSUME NEW k \in 1..(n - 1)
        PROVE  SeatAt(After(k)) # p /\ Turns!Distance(p, SeatAt(After(k))) = k
    <2>1. k \in 1..n /\ After(k) = Round(k) /\ After(k) # c /\ After(k) + 1 \in 1..n
      <3>1. k \in 1..n /\ After(k) \in 0..(n - 1)
        BY <1>1, <1>4
      <3>2. After(k) = Round(k)
        BY <1>3, <3>1
      <3>3. Round(k) # c
        BY <1>1, <3>1
      <3> HIDE DEF Round
      <3>4. QED
        BY <1>1, <3>1, <3>2, <3>3
    <2>2. SeatAt(After(k)) # p
      <3>1. Turns!Position(SeatAt(After(k))) = After(k) + 1
        BY <1>5, <2>1
      <3>2. After(k) + 1 # c + 1
        BY <1>1, <1>4, <2>1
      <3>3. QED
        BY <1>2, <3>1, <3>2
    <2>3. Turns!Distance(p, SeatAt(After(k))) = ((After(k) + 1) - (c + 1)) % n
      BY <1>2, <1>5, <2>1 DEF Turns!Distance
    <2>4. ((After(k) + 1) - (c + 1)) % n
            = IF c + 1 <= After(k) + 1 THEN (After(k) + 1) - (c + 1)
              ELSE (After(k) + 1) - (c + 1) + n
      BY <1>1, <1>2, <2>1, RoundTheRing
    <2>5. ASSUME NEW a \in Int, a = Round(k)
          PROVE  k = IF c + 1 <= a + 1 THEN (a + 1) - (c + 1) ELSE (a + 1) - (c + 1) + n
      BY <1>1, <2>5
    <2>6. After(k) \in Int
      BY <1>1, <2>1
    <2>7. QED
      BY <2>1, <2>2, <2>3, <2>4, <2>5, <2>6
  <1>8. ASSUME NEW q \in Seated \ {p} PROVE \E k \in 1..(n - 1) : SeatAt(After(k)) = q
    <2>1. PICK i \in 1..n : seats[i] = q
      BY SeatFacts
    <2>2. i # c + 1
      BY <1>2, <2>1
    <2> DEFINE k == IF i > c + 1 THEN i - 1 - c ELSE i - 1 - c + n
    <2>4. k \in 1..(n - 1) /\ k \in 1..n /\ Round(k) = i - 1
      BY <1>1, <2>1, <2>2
    <2> HIDE DEF k
    <2>5. After(k) = i - 1
      BY <1>1, <1>3, <2>4
    <2>6. (i - 1) + 1 = i
      BY <2>1
    <2>7. QED
      BY <2>1, <2>4, <2>5, <2>6 DEF SeatAt
  <1>9. QED
    BY <1>1, <1>2, <1>4, <1>5, <1>6, <1>7, <1>8 DEF After

(* The first candidate of the walk is the nearest of all.                  *)
LEMMA FirstFoundIsNearest ==
  ASSUME NEW p, NEW S, NEW q \in S,
         \A r \in S : Turns!Distance(p, r) \in Int,
         \A r \in S \ {q} : Turns!Distance(p, q) < Turns!Distance(p, r)
  PROVE  Turns!Nearest(p, S) = q
  <1> DEFINE D(r) == Turns!Distance(p, r)
  <1> HIDE DEF D
  <1>1. \A r \in S : D(r) \in Int /\ (r # q => D(q) < D(r))
    BY DEF D
  <1>2. \A r \in S : D(q) <= D(r)
    BY <1>1
  <1>3. \A r \in S : (\A t \in S : D(r) <= D(t)) => r = q
    BY <1>1
  <1>4. Turns!Nearest(p, S) = CHOOSE r \in S : \A t \in S : D(r) <= D(t)
    BY DEF Turns!Nearest, D
  <1>5. QED
    BY <1>2, <1>3, <1>4

(* The seat before which nobody is in S is the first seat of S.            *)
LEMMA FirstIsFirstSeat ==
  ASSUME IInv, NEW S \in SUBSET Seated, NEW i \in 1..Len(seats), seats[i] \in S,
         \A j \in 1..(i - 1) : seats[j] \notin S
  PROVE  Turns!FirstSeat(S) = seats[i]
  <1> DEFINE P(r) == Turns!Position(r)
  <1> HIDE DEF P
  <1>1. \A r \in S : P(r) \in 1..Len(seats) /\ seats[P(r)] = r
    BY SeatFacts DEF P
  <1>2. P(seats[i]) = i
    BY SeatFacts DEF P
  <1>3. Len(seats) \in Nat
    BY SeatFacts
  <1>4. \A r \in S : i <= P(r)
    BY <1>1, <1>3
  <1>5. \A r \in S : (\A t \in S : P(r) <= P(t)) => r = seats[i]
    BY <1>1, <1>2, <1>3, <1>4
  <1>6. Turns!FirstSeat(S) = CHOOSE r \in S : \A t \in S : P(r) <= P(t)
    BY DEF Turns!FirstSeat, P
  <1>7. QED
    BY <1>2, <1>4, <1>5, <1>6

(* nextTurnIndex with a seat on turn: the walk over the indices finds whom *)
(* TurnOrder names by the distance round the table.                        *)
LEMMA NextTurnGoesOn ==
  ASSUME IInv, state = "PLAYING", InRange, state' = "PLAYING", seats' = seats,
         NEW p, p = SeatAt(currentPlayerIndex),
         NEW out, NEW away, NEW own, NEW board,
         nextTurnIndex(out, away, own, board)
  PROVE  /\ Turns!GoOn(p, out, away, own)
         /\ Turn' \in Seated
  <1> DEFINE n == Len(seats)
             After(k) == (currentPlayerIndex + k) % n
             others == Seated \ (out \cup away \cup {p})
             Out(k) == SeatAt(After(k)) \in out \cup away
             Fresh == hasPassed' = out \cap away /\ lastTurnOwnerId' = NoPlayer
  <1>1. PICK loop \in 1..n :
          /\ \A k \in 1..(loop - 1) : Out(k)
          /\ loop = n \/ ~Out(loop)
          /\ \/ /\ loop < n /\ SeatAt(After(loop)) # own
                /\ currentPlayerIndex' = After(loop)
                /\ hasPassed' = out
                /\ lastTurnOwnerId' = own
             \/ /\ loop = n \/ SeatAt(After(loop)) = own
                /\ Fresh
                /\ \/ loop < n /\ currentPlayerIndex' = After(loop)
                   \/ /\ loop = n
                      /\ Seated \subseteq away
                      /\ currentPlayerIndex' = After(n)
                   \/ /\ loop = n
                      /\ currentPlayerIndex' \in 0..(n - 1)
                      /\ SeatAt(currentPlayerIndex') \notin away
                      /\ \A j \in 0..(currentPlayerIndex' - 1) : SeatAt(j) \in away
    BY DEF nextTurnIndex, Skips, NewTrick
  <1>2. /\ n \in Nat \ {0}
        /\ p \in Seated
        /\ \A k \in 1..n : After(k) \in 0..(n - 1) /\ SeatAt(After(k)) \in Seated
        /\ SeatAt(After(n)) = p
        /\ \A k \in 1..(n - 1) : /\ SeatAt(After(k)) # p
                                 /\ Turns!Distance(p, SeatAt(After(k))) = k
        /\ \A q \in Seated \ {p} : \E k \in 1..(n - 1) : SeatAt(After(k)) = q
    BY Walk
  <1> HIDE DEF After
  <1>3. n \in 1..n /\ loop \in 1..n /\ (loop # n => loop \in 1..(n - 1))
    BY <1>2
  <1>4. currentPlayerIndex' \in 0..(n - 1)
    BY <1>1, <1>2, <1>3
  <1>5. Turn' = SeatAt(currentPlayerIndex') /\ Turn' \in Seated
    BY <1>4, SeatFacts DEF Turn, InRange, SeatAt, n
  <1>6. ASSUME loop < n
        PROVE  /\ currentPlayerIndex' = After(loop)
               /\ SeatAt(After(loop)) \in others
               /\ Turns!Nearest(p, others) = SeatAt(After(loop))
    <2> DEFINE q == SeatAt(After(loop))
    <2>1. currentPlayerIndex' = After(loop) /\ loop \in 1..(n - 1)
      BY <1>1, <1>2, <1>6
    <2>2. q \in others /\ Turns!Distance(p, q) = loop
      BY <1>1, <1>2, <1>3, <1>6, <2>1
    <2>3. ASSUME NEW r \in others
          PROVE  /\ Turns!Distance(p, r) \in Int
                 /\ r # q => loop < Turns!Distance(p, r)
      <3>1. PICK k \in 1..(n - 1) : SeatAt(After(k)) = r
        BY <1>2
      <3>2. k \notin 1..(loop - 1)
        BY <1>1, <3>1
      <3>3. r # q => k > loop
        BY <1>2, <2>1, <3>1, <3>2
      <3>4. QED
        BY <1>2, <3>1, <3>3
    <2> HIDE DEF q, others
    <2>4. Turns!Nearest(p, others) = q
      BY <2>2, <2>3, FirstFoundIsNearest
    <2>5. QED
      BY <2>1, <2>2, <2>4 DEF q
  <1>7. ASSUME loop = n PROVE others = {}
    <2>1. \A k \in 1..(n - 1) : Out(k)
      BY <1>1, <1>7
    <2>2. QED
      BY <1>2, <2>1
  <1>8. CASE /\ loop < n /\ SeatAt(After(loop)) # own
             /\ hasPassed' = out
             /\ lastTurnOwnerId' = own
    BY <1>5, <1>6, <1>8 DEF Turns!GoOn, Turns!Seated, Seated, Turn
  <1>9. CASE loop < n /\ SeatAt(After(loop)) = own /\ Fresh
    BY <1>5, <1>6, <1>9 DEF Turns!GoOn, Turns!StillOut, Turns!Seated, Seated, Turn
  <1>10. CASE loop = n /\ Fresh /\ Seated \subseteq away /\ currentPlayerIndex' = After(n)
    BY <1>2, <1>5, <1>7, <1>10 DEF Turns!GoOn, Turns!StillOut, Turns!Seated, Seated, Turn
  <1>11. CASE /\ loop = n /\ Fresh
              /\ SeatAt(currentPlayerIndex') \notin away
              /\ \A j \in 0..(currentPlayerIndex' - 1) : SeatAt(j) \in away
    <2>1. PICK c \in 0..(n - 1) : c = currentPlayerIndex'
      BY <1>4
    <2> DEFINE i == c + 1
    <2>2. n \in Nat /\ c \in Int /\ 0 <= c /\ c < n
      BY <1>2
    <2>3. i \in 1..n /\ seats[i] \in Seated \ away
      <3>1. i \in 1..n
        BY <2>2
      <3>2. seats[i] \notin away
        BY <1>11, <2>1 DEF SeatAt
      <3>3. QED
        BY <3>1, <3>2, SeatFacts
    <2>4. ASSUME NEW j \in 1..(i - 1) PROVE seats[j] \notin Seated \ away
      <3>1. j - 1 \in 0..(c - 1) /\ (j - 1) + 1 = j
        BY <2>2
      <3>2. QED
        BY <1>11, <2>1, <3>1 DEF SeatAt
    <2>5. Turns!FirstSeat(Seated \ away) = seats[i]
      BY <2>3, <2>4, FirstIsFirstSeat
    <2>6. Turn' = Turns!FirstSeat(Seated \ away) /\ ~(Seated \subseteq away)
      BY <1>5, <2>1, <2>3, <2>5 DEF SeatAt
    <2>7. QED
      BY <1>5, <1>7, <1>11, <2>6 DEF Turns!GoOn, Turns!StillOut, Turns!Seated, Seated, Turn
  <1>12. QED
    BY <1>1, <1>3, <1>5, <1>8, <1>9, <1>10, <1>11

(* nextTurnIndex with an index beyond the seats: somebody gets the turn,   *)
(* in the same trick or in a new one.                                      *)
LEMMA LostTurnIsFound ==
  ASSUME IInv, state = "PLAYING", state' = "PLAYING", seats' = seats,
         NEW out, NEW away, NEW own, NEW board,
         nextTurnIndex(out, away, own, board)
  PROVE  /\ Turn' \in Seated
         /\ \/ hasPassed' = out /\ lastTurnOwnerId' = own
            \/ hasPassed' = out \cap away /\ lastTurnOwnerId' = NoPlayer
  <1>1. /\ seats \in Seq(Player) /\ Len(seats) \in Nat /\ Len(seats) >= 1
        /\ currentPlayerIndex \in Int
    BY SeatFacts DEF IInv, TypeOK, RunningRoom
  <1>2. currentPlayerIndex' \in 0..(Len(seats) - 1)
    BY <1>1, NextTurn
  <1>3. PICK c \in 0..(Len(seats) - 1) : c = currentPlayerIndex'
    BY <1>2
  <1>4. Turn' = seats[c + 1] /\ c + 1 \in 1..Len(seats)
    <2>1. currentPlayerIndex' \in 0..(Len(seats') - 1)
      BY <1>2
    <2>2. Turn' = SeatAt(c)
      BY <1>3, <2>1 DEF Turn, InRange, SeatAt
    <2>3. c + 1 \in 1..Len(seats)
      BY <1>1, NextOfIndex
    <2>4. QED
      BY <2>2, <2>3 DEF SeatAt
  <1>5. Turn' \in Seated
    BY <1>4, SeatFacts
  <1>6. \/ hasPassed' = out /\ lastTurnOwnerId' = own
        \/ hasPassed' = out \cap away /\ lastTurnOwnerId' = NoPlayer
    BY DEF nextTurnIndex, NewTrick
  <1>7. QED
    BY <1>5, <1>6

(* The turn is lost exactly when the index designates no seat.             *)
LEMMA TurnIsAtIndex ==
  ASSUME IInv
  PROVE  /\ state # "PLAYING" => Turn = NoPlayer
         /\ state = "PLAYING" /\ ~InRange => Turn = NoPlayer
         /\ state = "PLAYING" /\ InRange =>
              /\ Turn = SeatAt(currentPlayerIndex)
              /\ Turn \in Seated
              /\ Turn # NoPlayer
  <1>1. ASSUME state = "PLAYING", InRange
        PROVE  SeatAt(currentPlayerIndex) \in Seated
    <2>1. currentPlayerIndex + 1 \in 1..Len(seats)
      BY <1>1, SeatFacts DEF InRange
    <2>2. QED
      BY <2>1, SeatFacts DEF SeatAt
  <1>2. NoPlayer \notin Seated
    BY SeatFacts, GameAssumption
  <1>3. QED
    BY <1>1, <1>2 DEF Turn

(* The object after handleWin or games.erase, seen as TurnOrder.           *)
LEMMA ClearIsClear ==
  ASSUME NEW st \in {"WAITING", "FINISHED"}, ClearTable(st)
  PROVE  Turns!Clear
  BY DEF ClearTable, Turns!Clear

(* addPlayer appends a seat and touches no turn.                           *)
LEMMA JoinTurns ==
  ASSUME IInv, NEW p \in Player, addPlayer(p)
  PROVE  Turns!Join(p)
  <1>1. state = "WAITING" /\ state' = "WAITING"
    BY DEF addPlayer, isJoinAllowed, phaseVars
  <1>2. QED
    BY <1>1 DEF addPlayer, flags, turnVars, Turns!Join, Turns!Seated, Seated

(* removePlayer closes the ranks as TurnOrder says; the index then         *)
(* designates another seat or none.                                        *)
LEMMA LeaveTurns ==
  ASSUME IInv, NEW p \in Player, removePlayer(p)
  PROVE  Turns!Clear \/ Turns!Leave(p)
  <1>1. CASE ClearTable("WAITING")
    BY <1>1, ClearIsClear
  <1>2. CASE /\ p \in Seated
             /\ Seated # {p}
             /\ seats' = SeatsWithout(p)
             /\ hasPassed' = hasPassed \ {p}
             /\ isDisconnected' = isDisconnected \ {p}
             /\ state' = state
             /\ lastTurnOwnerId' = lastTurnOwnerId
    <2>1. seats' = [k \in 1..(Len(seats) - 1) |->
                      IF k < Turns!Position(p) THEN seats[k] ELSE seats[k + 1]]
      BY <1>2 DEF SeatsWithout, Turns!Position
    <2>2. /\ Len(seats') = Len(seats) - 1
          /\ {seats'[k] : k \in 1..(Len(seats) - 1)} = Seated \ {p}
      <3>1. seats \in Seq(Player) /\ SeatsDistinct /\ p \in Seated
        BY <1>2 DEF IInv, TypeOK
      <3>2. /\ Len(SeatsWithout(p)) = Len(seats) - 1
            /\ {SeatsWithout(p)[k] : k \in 1..(Len(seats) - 1)} = Seated \ {p}
        BY <3>1, SeatsWithoutPlayer
      <3>3. QED
        BY <1>2, <3>2
    <2>3. ASSUME state' = "PLAYING", InRange' PROVE Turn' \in Seated \ {p}
      <3>1. PICK c \in 0..(Len(seats') - 1) : c = currentPlayerIndex'
        BY <2>3 DEF InRange
      <3>2. c + 1 \in 1..(Len(seats) - 1)
        <4>1. Len(seats) \in Nat /\ Turns!Position(p) \in 1..Len(seats)
          BY <1>2, SeatFacts
        <4>2. Len(seats) - 1 \in Nat
          BY <4>1
        <4>3. c \in 0..((Len(seats) - 1) - 1)
          BY <2>2, <3>1
        <4>4. QED
          BY <4>2, <4>3, NextOfIndex
      <3>3. Turn' = seats'[c + 1]
        BY <2>3, <3>1 DEF Turn, SeatAt
      <3>4. QED
        BY <2>2, <3>2, <3>3
    <2>4. ~(state' = "PLAYING" /\ InRange') => Turn' = NoPlayer
      BY DEF Turn
    <2>5. Turn' \in IF state = "PLAYING" THEN (Seated \ {p}) \cup {NoPlayer} ELSE {NoPlayer}
      BY <1>2, <2>3, <2>4
    <2>6. QED
      BY <1>2, <2>1, <2>5 DEF Turns!Leave, Turns!Seated, Seated, Turn
  <1>3. QED
    BY <1>1, <1>2 DEF removePlayer, turnVars

(* A broken connection passes for the player on turn, and only flags       *)
(* anybody else.                                                           *)
LEMMA DisconnectTurns ==
  ASSUME IInv, NEW p \in Player, onPlayerDisconnect(p)
  PROVE  Turns!Clear \/ Turns!Leave(p) \/ Turns!Disconnect(p)
  <1> DEFINE away == isDisconnected \cup {p}
             out == hasPassed \cup {p}
  <1>1. CASE removePlayer(p)
    BY <1>1, LeaveTurns
  <1>2. CASE ClearTable("WAITING")
    BY <1>2, ClearIsClear
  <1>3. CASE /\ state = "PLAYING" /\ state' = "PLAYING" /\ seats' = seats
             /\ p \in Seated \ isDisconnected
             /\ isDisconnected' = away
             /\ \/ /\ MayHoldTurn(p)
                   /\ nextTurnIndex(out, away, lastTurnOwnerId, boardCards)
                \/ /\ ~HoldsTurn(p)
                   /\ hasPassed' = out
                   /\ UNCHANGED turnVars
    <2>1. \/ Turn = p /\ Turns!GoOn(p, out, away, lastTurnOwnerId)
          \/ Turn # p /\ hasPassed' = out /\ Turn' = Turn /\ lastTurnOwnerId' = lastTurnOwnerId
          \/ /\ Turn = NoPlayer
             /\ Turn' \in Seated
             /\ \/ hasPassed' = out /\ lastTurnOwnerId' = lastTurnOwnerId
                \/ hasPassed' = out \cap away /\ lastTurnOwnerId' = NoPlayer
      <3>1. CASE /\ InRange /\ MayHoldTurn(p)
                 /\ nextTurnIndex(out, away, lastTurnOwnerId, boardCards)
        <4>1. p = SeatAt(currentPlayerIndex) /\ Turn = p
          BY <1>3, <3>1, TurnIsAtIndex DEF MayHoldTurn
        <4>2. Turns!GoOn(p, out, away, lastTurnOwnerId)
          BY <1>3, <3>1, <4>1, NextTurnGoesOn
        <4>3. QED
          BY <4>1, <4>2
      <3>2. CASE ~InRange /\ nextTurnIndex(out, away, lastTurnOwnerId, boardCards)
        BY <1>3, <3>2, TurnIsAtIndex, LostTurnIsFound
      <3>3. CASE ~HoldsTurn(p) /\ hasPassed' = out /\ UNCHANGED turnVars
        <4>1. Turn # p
          BY <1>3, <3>3, TurnIsAtIndex, GameAssumption DEF HoldsTurn
        <4>2. Turn' = Turn /\ lastTurnOwnerId' = lastTurnOwnerId
          BY <1>3, <3>3 DEF turnVars, Turn, InRange, SeatAt
        <4>3. QED
          BY <3>3, <4>1, <4>2
      <3>4. QED
        BY <1>3, <3>1, <3>2, <3>3
    <2>2. QED
      BY <1>3, <2>1 DEF Turns!Disconnect, Turns!StillOut, Turns!Seated, Seated, Turn
  <1>4. QED
    BY <1>1, <1>2, <1>3, WinClears DEF onPlayerDisconnect, phaseVars, Active

(* Cards that do not end the hand make their player the trick's owner.     *)
LEMMA PlayTurns ==
  ASSUME IInv, NEW p \in Player, NEW cards, playCards(p, cards)
  PROVE  Turns!Clear \/ Turns!Play
  <1>1. CASE ClearTable("FINISHED") \/ ClearTable("WAITING")
    BY <1>1, ClearIsClear
  <1>2. CASE /\ nextTurnIndex(hasPassed, isDisconnected, p, cards)
             /\ UNCHANGED <<seats, isDisconnected, state>>
    <2>1. state = "PLAYING" /\ InRange /\ p = SeatAt(currentPlayerIndex)
      BY DEF playCards, HoldsTurn
    <2>2. Turn = p /\ Turn # NoPlayer
      BY <2>1, TurnIsAtIndex
    <2>3. Turns!GoOn(p, hasPassed, isDisconnected, p)
      BY <1>2, <2>1, NextTurnGoesOn
    <2>4. QED
      BY <1>2, <2>1, <2>2, <2>3 DEF Turns!Play, Turn
  <1>3. QED
    BY <1>1, <1>2, WinClears DEF playCards, phaseVars

(* A pass, by the player or by the timer, with or without a seat on turn.  *)
LEMMA PassTurns ==
  ASSUME IInv, NEW p \in Player, passTurn(p)
  PROVE  Turns!Pass
  <1>1. /\ state = "PLAYING" /\ MayHoldTurn(p)
        /\ UNCHANGED <<seats, isDisconnected, state>>
        /\ nextTurnIndex(PassedAtIndex, isDisconnected, lastTurnOwnerId, boardCards)
    BY DEF passTurn, phaseVars
  <1>2. CASE InRange
    <2>1. p = SeatAt(currentPlayerIndex) /\ Turn = p /\ Turn # NoPlayer
      BY <1>1, <1>2, TurnIsAtIndex DEF MayHoldTurn
    <2>2. PassedAtIndex = hasPassed \cup {p}
      BY <1>2, <2>1 DEF PassedAtIndex
    <2>3. Turns!GoOn(p, hasPassed \cup {p}, isDisconnected, lastTurnOwnerId)
      BY <1>1, <1>2, <2>1, <2>2, NextTurnGoesOn
    <2>4. QED
      BY <1>1, <2>1, <2>3 DEF Turns!Pass, Turn
  <1>3. CASE ~InRange
    <2>1. Turn = NoPlayer /\ PassedAtIndex = hasPassed
      BY <1>1, <1>3, TurnIsAtIndex DEF PassedAtIndex
    <2>2. /\ Turn' \in Seated
          /\ \/ hasPassed' = hasPassed /\ lastTurnOwnerId' = lastTurnOwnerId
             \/ hasPassed' = hasPassed \cap isDisconnected /\ lastTurnOwnerId' = NoPlayer
      BY <1>1, <2>1, LostTurnIsFound
    <2>3. QED
      BY <1>1, <2>1, <2>2
         DEF Turns!Pass, Turns!PickUp, Turns!StillOut, Turns!Seated, Seated, Turn
  <1>4. QED
    BY <1>2, <1>3

(* The deal draws a connected seat for the first turn.                     *)
LEMMA DealTurns ==
  ASSUME IInv, startPlayingPhase
  PROVE  Turns!Deal
  <1>1. /\ state = "WAITING" /\ state' = "PLAYING" /\ Len(seats) >= 2
        /\ hasPassed' = hasPassed /\ lastTurnOwnerId' = lastTurnOwnerId
        /\ seats' = seats /\ isDisconnected' = isDisconnected
    BY DEF startPlayingPhase, IInv, CountdownHasPlayers, IdleRoom
  <1>2. PICK c \in 0..(Len(seats) - 1) : c = currentPlayerIndex'
    BY DEF startPlayingPhase, FirstSeats
  <1>3. Turn' = seats[c + 1] /\ c + 1 \in 1..Len(seats)
    <2>1. currentPlayerIndex' \in 0..(Len(seats') - 1)
      BY <1>1, <1>2
    <2>2. Turn' = SeatAt(c)
      BY <1>1, <1>2, <2>1 DEF Turn, InRange, SeatAt
    <2>3. Len(seats) \in Nat
      BY SeatFacts
    <2>4. c + 1 \in 1..Len(seats)
      BY <2>3, NextOfIndex
    <2>5. QED
      BY <2>2, <2>4 DEF SeatAt
  <1>4. Turn' \in Seated
    BY <1>3, SeatFacts
  <1>5. QED
    BY <1>1, <1>4 DEF Turns!Deal, Turns!Seated, Seated, Turn

(* Ready flags do not concern the turns.                                   *)
LEMMA ReadyTurns ==
  ASSUME IInv, NEW p \in Player, NEW ready \in BOOLEAN, setPlayerReady(p, ready)
  PROVE  UNCHANGED Turns!turnOrderVars
  BY DEF setPlayerReady, turnVars, Turns!turnOrderVars

(* The empty room starts TurnOrder.                                        *)
LEMMA TurnsInit == Init => Turns!Init
  BY DEF Init, Turns!Init

(* Every step of the game is a step of TurnOrder or invisible to it.       *)
LEMMA TurnsStep == IInv /\ [Next]_vars => [Turns!Next]_(Turns!turnOrderVars)
  <1> SUFFICES ASSUME IInv, [Next]_vars
               PROVE  Turns!Next \/ UNCHANGED Turns!turnOrderVars
    OBVIOUS
  <1>1. ASSUME NEW p \in Player, addPlayer(p) PROVE Turns!Next
    BY <1>1, JoinTurns DEF Turns!Next
  <1>2. ASSUME NEW p \in Player, removePlayer(p) PROVE Turns!Next
    BY <1>2, LeaveTurns DEF Turns!Next
  <1>3. ASSUME NEW p \in Player, onPlayerDisconnect(p) PROVE Turns!Next
    BY <1>3, DisconnectTurns DEF Turns!Next
  <1>4. ASSUME NEW p \in Player, NEW ready \in BOOLEAN, setPlayerReady(p, ready)
        PROVE  UNCHANGED Turns!turnOrderVars
    BY <1>4, ReadyTurns
  <1>5. ASSUME NEW p \in Player, NEW cards, playCards(p, cards) PROVE Turns!Next
    BY <1>5, PlayTurns DEF Turns!Next
  <1>6. ASSUME NEW p \in Player, passTurn(p) PROVE Turns!Next
    BY <1>6, PassTurns DEF Turns!Next
  <1>7. CASE startPlayingPhase
    BY <1>7, DealTurns DEF Turns!Next
  <1>8. CASE UNCHANGED vars
    BY <1>8 DEF vars, roomVars, flags, turnVars, phaseVars, InRange, SeatAt,
       Turns!turnOrderVars
  <1>9. ASSUME NEW p \in Player, PlayElsewhere(p) PROVE UNCHANGED Turns!turnOrderVars
    BY <1>9 DEF PlayElsewhere, roomVars, flags, turnVars, phaseVars, InRange, SeatAt,
       Turns!turnOrderVars
  <1>10. CASE Crash
    BY <1>10, ClearIsClear DEF Crash, Turns!Next
  <1>11. QED
    BY <1>1, <1>2, <1>3, <1>4, <1>5, <1>6, <1>7, <1>8, <1>9, <1>10 DEF Next, TurnTimeout

(* Whatever the cards, the bets and the number of players: the turn goes   *)
(* round the seats to the nearest player who is still in the trick, a      *)
(* trick ends exactly when its owner is reached or nobody else is left in  *)
(* it, and a given-up seat takes nobody else's place in the order          *)
(* (nextTurnIndex, playCards, passTurn, onPlayerDisconnect, removePlayer). *)
THEOREM GameImplementsTurnOrder == Spec => ImplementsTurnOrder
  <1>1. Init => Turns!Init
    BY TurnsInit
  <1>2. IInv /\ [Next]_vars => [Turns!Next]_(Turns!turnOrderVars)
    BY TurnsStep
  <1>3. Spec => []IInv
    BY Invariance
  <1>4. QED
    BY <1>1, <1>2, <1>3, PTL DEF Spec, ImplementsTurnOrder, Turns!Spec

----------------------------------------------------------------------------
(* The rules: what analyzeHand reads off the sorted cards, and why a trick *)
(* can not go on for ever.                                                 *)

(* s lists the cards, each once, by ascending value.                       *)
Lists(s, cards) ==
  /\ s \in [1..Cardinality(cards) -> cards]
  /\ \A c \in cards : \E i \in DOMAIN s : s[i] = c
  /\ \A i, j \in DOMAIN s : s[i] = s[j] => i = j
  /\ \A i, j \in DOMAIN s : i < j => OrderValue[s[i]] <= OrderValue[s[j]]

ValuesOf(s) == [i \in DOMAIN s |-> OrderValue[s[i]]]

(* The last of the listed values is the greatest.                          *)
LEMMA LastIsPower ==
  ASSUME NEW cards \in SUBSET Card, cards # {}, NEW s, Lists(s, cards)
  PROVE  /\ Cardinality(cards) \in Nat \ {0}
         /\ Power(cards) = OrderValue[s[Cardinality(cards)]]
         /\ Power(cards) \in 3..15
         /\ \A c \in cards : OrderValue[c] \in 3..15 /\ OrderValue[c] <= Power(cards)
  <1> DEFINE n == Cardinality(cards)
  <1>1. IsFiniteSet(cards)
    BY RulesAssumption, FS_Subset
  <1>2. n \in Nat \ {0}
    BY <1>1, FS_CardinalityType, FS_EmptySet
  <1>3. \A c \in cards : OrderValue[c] \in 3..15
    BY RulesAssumption
  <1>4. s[n] \in cards /\ n \in DOMAIN s /\ DOMAIN s = 1..n
    BY <1>2 DEF Lists
  <1>5. \A c \in cards : OrderValue[c] <= OrderValue[s[n]]
    <2>1. TAKE c \in cards
    <2>2. PICK i \in DOMAIN s : s[i] = c
      BY DEF Lists
    <2>3. CASE i = n
      BY <1>3, <2>2, <2>3
    <2>4. CASE i < n
      BY <1>4, <2>2, <2>4 DEF Lists
    <2>5. QED
      BY <1>2, <1>4, <2>3, <2>4
  <1>6. \A w \in Values(cards) : w <= OrderValue[s[n]]
    BY <1>5 DEF Values
  <1>7. OrderValue[s[n]] \in Values(cards)
    BY <1>4 DEF Values
  <1>8. Power(cards) \in Values(cards) /\ \A w \in Values(cards) : w <= Power(cards)
    BY <1>6, <1>7 DEF Power
  <1>9. Values(cards) \subseteq 3..15
    BY <1>3 DEF Values
  <1>10. Power(cards) = OrderValue[s[n]]
    <2>1. Power(cards) <= OrderValue[s[n]] /\ OrderValue[s[n]] <= Power(cards)
      BY <1>6, <1>7, <1>8
    <2>2. QED
      BY <1>7, <1>8, <1>9, <2>1
  <1>11. QED
    BY <1>2, <1>3, <1>5, <1>10, <1>4

(* Cards of one value are those whose first and last values agree.         *)
LEMMA SameValueByEnds ==
  ASSUME NEW cards \in SUBSET Card, cards # {}, NEW s, Lists(s, cards)
  PROVE  SameValue(cards) <=> OrderValue[s[1]] = OrderValue[s[Cardinality(cards)]]
  <1> DEFINE n == Cardinality(cards)
  <1>1. /\ n \in Nat \ {0} /\ DOMAIN s = 1..n /\ 1 \in DOMAIN s /\ n \in DOMAIN s
        /\ s[1] \in cards /\ s[n] \in cards
    <2>1. n \in Nat \ {0}
      BY LastIsPower
    <2>2. s \in [1..n -> cards]
      BY DEF Lists
    <2>3. QED
      BY <2>1, <2>2
  <1>2. \A c \in cards : OrderValue[c] \in 3..15
    BY RulesAssumption
  <1>3. ASSUME OrderValue[s[1]] = OrderValue[s[n]], NEW c \in cards
        PROVE  OrderValue[c] = OrderValue[s[1]]
    <2>1. PICK i \in DOMAIN s : s[i] = c
      BY DEF Lists
    <2>2. i = 1 \/ OrderValue[s[1]] <= OrderValue[s[i]]
      <3>1. i = 1 \/ 1 < i
        BY <1>1
      <3>2. \A j, k \in DOMAIN s : j < k => OrderValue[s[j]] <= OrderValue[s[k]]
        BY DEF Lists
      <3>3. QED
        BY <1>1, <3>1, <3>2
    <2>3. OrderValue[c] <= OrderValue[s[n]]
      BY LastIsPower
    <2>4. OrderValue[c] \in 3..15 /\ OrderValue[s[1]] \in 3..15
      BY <1>1, <1>2
    <2>5. i # 1 => OrderValue[s[1]] <= OrderValue[c]
      BY <2>1, <2>2
    <2>6. OrderValue[c] <= OrderValue[s[1]]
      BY <1>3, <2>3
    <2>7. i = 1 => OrderValue[c] = OrderValue[s[1]]
      BY <2>1
    <2>8. QED
      BY <2>4, <2>5, <2>6, <2>7
  <1>4. QED
    BY <1>1, <1>3 DEF SameValue

(* A sequence, as a set and as the loop over neighbours sees it.           *)
LEMMA SequenceByNeighbours ==
  ASSUME NEW cards \in SUBSET Card, cards # {}, NEW s, Lists(s, cards)
  PROVE  IsSequence(cards) <=>
           \A i \in 1..Cardinality(cards) - 1 :
             /\ OrderValue[s[i + 1]] = OrderValue[s[i]] + 1
             /\ OrderValue[s[i + 1]] # HighestValue
  <1> DEFINE n == Cardinality(cards)
             V(i) == OrderValue[s[i]]
  <1>1. /\ n \in Nat \ {0} /\ DOMAIN s = 1..n
        /\ \A i \in 1..n : s[i] \in cards /\ V(i) \in 3..15
        /\ \A i, j \in 1..n : i < j => V(i) <= V(j)
        /\ \A c \in cards : \E i \in 1..n : s[i] = c
        /\ Power(cards) = V(n)
    <2>1. n \in Nat \ {0} /\ Power(cards) = V(n) /\ \A c \in cards : OrderValue[c] \in 3..15
      BY LastIsPower
    <2>2. s \in [1..n -> cards]
      BY DEF Lists
    <2>3. DOMAIN s = 1..n /\ \A i \in 1..n : s[i] \in cards
      BY <2>2
    <2>4. /\ \A i, j \in 1..n : i < j => V(i) <= V(j)
          /\ \A c \in cards : \E i \in 1..n : s[i] = c
      BY <2>3 DEF Lists
    <2>5. QED
      BY <2>1, <2>3, <2>4
  <1>2. \A i \in 1..n : V(i) \in Int
    <2>1. \A v \in 3..15 : v \in Int
      OBVIOUS
    <2>2. QED
      BY <1>1, <2>1
  <1>3. IsSequence(cards) <=>
          /\ \A j, k \in 1..n : V(j) = V(k) => s[j] = s[k]
          /\ \A j \in 1..n : V(j) # V(n) =>
               (\E k \in 1..n : V(k) = V(j) + 1) /\ V(j) + 1 # HighestValue
    <2>1. Values(cards) = {V(k) : k \in 1..n}
      BY <1>1 DEF Values
    <2>2. QED
      BY <1>1, <2>1 DEF IsSequence
  <1>4. \A j, k \in 1..n : s[j] = s[k] => j = k
    BY <1>1 DEF Lists
  <1> HIDE DEF n, V
  <1>5. ASSUME IsSequence(cards), NEW i \in 1..n - 1
        PROVE  V(i + 1) = V(i) + 1 /\ V(i + 1) # HighestValue
    <2>1. i \in 1..n /\ i + 1 \in 1..n /\ n \in 1..n /\ i # n
      BY <1>1
    <2>2. \A j, k \in 1..n : V(j) = V(k) => j = k
      BY <1>5, <1>3, <1>4
    <2>3. V(i) # V(n)
      BY <2>1, <2>2
    <2>4. V(i) + 1 # HighestValue /\ \E j \in 1..n : V(j) = V(i) + 1
      BY <1>5, <1>3, <2>1, <2>3
    <2>5. PICK j \in 1..n : V(j) = V(i) + 1
      BY <2>4
    <2>6. V(i) \in Int /\ V(i + 1) \in Int /\ V(j) \in Int
      BY <1>2, <2>1
    <2>7. j > i
      <3>1. j < i => V(j) <= V(i)
        BY <1>1, <2>1
      <3>2. j # i
        BY <2>5, <2>6
      <3>3. ~(j < i)
        BY <2>5, <2>6, <3>1
      <3>4. QED
        BY <2>1, <3>2, <3>3
    <2>8. V(i + 1) <= V(j)
      <3>1. i + 1 = j \/ i + 1 < j
        BY <2>1, <2>7
      <3>2. QED
        BY <1>1, <2>1, <2>6, <3>1
    <2>9. V(i) <= V(i + 1) /\ V(i) # V(i + 1)
      BY <1>1, <2>1, <2>2
    <2>10. V(i + 1) = V(i) + 1
      BY <2>5, <2>6, <2>8, <2>9
    <2>11. QED
      BY <2>4, <2>10
  <1>6. ASSUME \A i \in 1..n - 1 : V(i + 1) = V(i) + 1 /\ V(i + 1) # HighestValue
        PROVE  IsSequence(cards)
    <2>1. ASSUME NEW i \in 1..n, NEW j \in 1..n, i < j PROVE V(i) < V(j)
      <3>1. i \in 1..n - 1 /\ i + 1 \in 1..n
        BY <1>1, <2>1
      <3>2. V(i + 1) = V(i) + 1 /\ V(i) \in Int /\ V(j) \in Int
        BY <1>6, <1>2, <3>1
      <3>3. V(i + 1) <= V(j)
        <4>1. i + 1 = j \/ i + 1 < j
          BY <2>1, <3>1
        <4>2. QED
          BY <1>1, <3>1, <3>2, <4>1
      <3>4. QED
        BY <3>2, <3>3
    <2>2. ASSUME NEW i \in 1..n, NEW j \in 1..n, V(i) = V(j) PROVE s[i] = s[j]
      <3>1. ~(i < j) /\ ~(j < i)
        BY <1>2, <2>1, <2>2
      <3>2. QED
        BY <1>1, <3>1
    <2>3. ASSUME NEW i \in 1..n, V(i) # V(n)
          PROVE  (\E k \in 1..n : V(k) = V(i) + 1) /\ V(i) + 1 # HighestValue
      <3>1. i \in 1..n - 1 /\ i + 1 \in 1..n
        BY <1>1, <2>3
      <3>2. V(i + 1) = V(i) + 1 /\ V(i + 1) # HighestValue
        BY <1>6, <3>1
      <3>3. QED
        BY <3>1, <3>2
    <2>4. QED
      BY <1>3, <2>2, <2>3
  <1>7. QED
    BY <1>5, <1>6 DEF n, V

(* analyzeHand's loop over the sorted values and the definition by sets    *)
(* classify every set of cards alike, whatever the deck and however cards  *)
(* of one value are sorted (analyzeHand).                                  *)
THEOREM TypeIsReadOff ==
  ASSUME NEW cards \in SUBSET Card, cards # {}, NEW s, Lists(s, cards)
  PROVE  TypeOf(cards) = LoopType(ValuesOf(s))
  <1> DEFINE n == Cardinality(cards)
             v == ValuesOf(s)
  <1>1. n \in Nat \ {0} /\ DOMAIN s = 1..n
    BY LastIsPower DEF Lists
  <1>2. Len(v) = n /\ \A i \in 1..n : v[i] = OrderValue[s[i]]
    BY <1>1 DEF ValuesOf
  <1>3. SameValue(cards) <=> v[1] = v[n]
    BY <1>1, <1>2, SameValueByEnds
  <1>4. IsSequence(cards) <=> \A i \in 1..n - 1 : v[i + 1] = v[i] + 1 /\ v[i + 1] # HighestValue
    <2>1. \A i \in 1..n - 1 : i \in 1..n /\ i + 1 \in 1..n
      BY <1>1
    <2>2. QED
      BY <1>2, <2>1, SequenceByNeighbours
  <1>5. n >= 3 /\ IsSequence(cards) => v[1] # v[n]
    <2>1. ASSUME n >= 3, v[1] = v[n] PROVE ~IsSequence(cards)
      <3>1. s[1] = s[n] => 1 = n
        BY <1>1, <2>1 DEF Lists
      <3>2. s[1] \in cards /\ s[n] \in cards /\ OrderValue[s[1]] = OrderValue[s[n]]
        BY <1>1, <1>2, <2>1 DEF Lists
      <3>3. QED
        BY <2>1, <3>1, <3>2 DEF IsSequence
    <2>2. QED
      BY <2>1
  <1> HIDE DEF n, v
  <1>6. TypeOf(cards) =
          IF n = 1 THEN "SINGLE"
          ELSE IF n = 2 /\ SameValue(cards) THEN "PAIR"
          ELSE IF n = 3 /\ SameValue(cards) THEN "TRIPLE"
          ELSE IF n = 4 /\ SameValue(cards) THEN "QUAD"
          ELSE IF n >= 3 /\ ~SameValue(cards) /\ IsSequence(cards) THEN "SEQUENCE"
          ELSE "INVALID"
    BY <1>1 DEF TypeOf, n
  <1>7. LoopType(v) =
          IF n = 1 THEN "SINGLE"
          ELSE IF n = 2 /\ SameValue(cards) THEN "PAIR"
          ELSE IF n = 3 /\ SameValue(cards) THEN "TRIPLE"
          ELSE IF n = 4 /\ SameValue(cards) THEN "QUAD"
          ELSE IF n >= 3 /\ IsSequence(cards) THEN "SEQUENCE"
          ELSE "INVALID"
    BY <1>1, <1>2, <1>3, <1>4 DEF LoopType
  <1>8. QED
    BY <1>1, <1>3, <1>5, <1>6, <1>7 DEF v

(* The sorted-array reading that the run `rules` compares with the sets.   *)
Trick == INSTANCE MCRules WITH board <- boardCards, NumCards <- Cardinality(Card)

(* Its operators, those of FiniteSets included, are those of the room.      *)
LEMMA SameCounting == \A S : Trick!Cardinality(S) = Cardinality(S)
  BY DEF Cardinality, Trick!Cardinality

(* The types of combinations.                                              *)
LEMMA SameRules ==
  /\ \A cards : Trick!TypeOf(cards) = TypeOf(cards)
  /\ \A values : Trick!LoopType(values) = LoopType(values)
  <1>1. \A cards : Trick!SameValue(cards) = SameValue(cards)
    BY DEF SameValue, Trick!SameValue
  <1>2. \A cards : Trick!Power(cards) = Power(cards)
    BY DEF Power, Trick!Power, Values, Trick!Values
  <1>3. \A cards : Trick!IsSequence(cards) = IsSequence(cards)
    BY <1>2 DEF IsSequence, Trick!IsSequence, Values, Trick!Values, HighestValue, Trick!HighestValue
  <1>4. \A cards : Trick!TypeOf(cards) = TypeOf(cards)
    BY <1>1, <1>3, SameCounting DEF TypeOf, Trick!TypeOf
  <1>5. \A values : Trick!LoopType(values) = LoopType(values)
    BY DEF LoopType, Trick!LoopType, HighestValue, Trick!HighestValue
  <1>6. QED
    BY <1>4, <1>5

(* Of two cards one is before the other, and has the lower place.          *)
LEMMA RanksGrow ==
  ASSUME Card \subseteq Int, NEW cards \in SUBSET Card,
         NEW c \in cards, NEW d \in cards, Trick!Before(c, d)
  PROVE  Trick!Rank(cards, c) < Trick!Rank(cards, d)
  <1> DEFINE Pre(x) == {e \in cards : Trick!Before(e, x)}
  <1>1. \A x, y \in cards : OrderValue[x] \in Int /\ x \in Int
    BY RulesAssumption
  <1>2. c \in Pre(d) /\ c \notin Pre(c)
    BY <1>1 DEF Trick!Before
  <1>3. Pre(c) \subseteq Pre(d)
    <2>1. ASSUME NEW e \in cards, Trick!Before(e, c) PROVE Trick!Before(e, d)
      BY <1>1, <2>1 DEF Trick!Before
    <2>2. QED
      BY <2>1
  <1>4. IsFiniteSet(Pre(d))
    BY RulesAssumption, FS_Subset
  <1>5. /\ IsFiniteSet(Pre(d) \ {c})
        /\ Cardinality(Pre(d) \ {c}) = Cardinality(Pre(d)) - 1
    BY <1>2, <1>4, FS_RemoveElement
  <1>6. Pre(c) \in SUBSET (Pre(d) \ {c})
    BY <1>2, <1>3
  <1>7. IsFiniteSet(Pre(c)) /\ Cardinality(Pre(c)) <= Cardinality(Pre(d) \ {c})
    BY <1>5, <1>6, FS_Subset
  <1>8. Cardinality(Pre(c)) \in Nat /\ Cardinality(Pre(d)) \in Nat
    BY <1>4, <1>7, FS_CardinalityType
  <1> HIDE DEF Pre
  <1>9. Cardinality(Pre(c)) < Cardinality(Pre(d))
    BY <1>5, <1>7, <1>8
  <1>10. QED
    BY <1>9, SameCounting DEF Pre, Trick!Rank

(* Every place is taken: the places are as many as the cards.              *)
LEMMA RanksAreTaken ==
  ASSUME Card \subseteq Int, NEW cards \in SUBSET Card
  PROVE  /\ \A i \in 1..Cardinality(cards) : \E c \in cards : Trick!Rank(cards, c) = i - 1
         /\ \A c \in cards : Trick!Rank(cards, c) + 1 \in 1..Cardinality(cards)
         /\ \A c, d \in cards : Trick!Rank(cards, c) = Trick!Rank(cards, d) => c = d
  <1> DEFINE n == Cardinality(cards)
             R == [c \in cards |-> Trick!Rank(cards, c) + 1]
  <1>1. IsFiniteSet(cards) /\ n \in Nat
    BY RulesAssumption, FS_Subset, FS_CardinalityType
  <1>2. ASSUME NEW c \in cards PROVE Trick!Rank(cards, c) \in 0..n - 1
    <2> DEFINE Pre == {e \in cards : Trick!Before(e, c)}
    <2>1. OrderValue[c] \in Int /\ c \in Int
      BY RulesAssumption
    <2>2. ~Trick!Before(c, c)
      BY <2>1 DEF Trick!Before
    <2>3. Pre \in SUBSET (cards \ {c})
      BY <2>2
    <2>4. IsFiniteSet(cards \ {c}) /\ Cardinality(cards \ {c}) = n - 1
      BY <1>1, FS_RemoveElement
    <2>5. IsFiniteSet(Pre) /\ Cardinality(Pre) <= n - 1
      BY <2>3, <2>4, FS_Subset
    <2>6. Cardinality(Pre) \in Nat
      BY <2>5, FS_CardinalityType
    <2>7. Trick!Rank(cards, c) = Cardinality(Pre)
      BY SameCounting DEF Trick!Rank
    <2> HIDE DEF Pre, n
    <2>8. n \in Nat
      BY <1>1
    <2>9. QED
      BY <2>5, <2>6, <2>7, <2>8
  <1>3. ASSUME NEW c \in cards, NEW d \in cards,
               Trick!Rank(cards, c) = Trick!Rank(cards, d), c # d
        PROVE  FALSE
    <2>1. OrderValue[c] \in Int /\ c \in Int /\ OrderValue[d] \in Int /\ d \in Int
      BY RulesAssumption
    <2>2. Trick!Before(c, d) \/ Trick!Before(d, c)
      BY <1>3, <2>1 DEF Trick!Before
    <2>3. \/ Trick!Rank(cards, c) < Trick!Rank(cards, d)
          \/ Trick!Rank(cards, d) < Trick!Rank(cards, c)
      BY <2>2, RanksGrow
    <2>4. Trick!Rank(cards, c) \in 0..n - 1 /\ Trick!Rank(cards, d) \in 0..n - 1
      BY <1>2
    <2> HIDE DEF n
    <2>5. n \in Nat
      BY <1>1
    <2>6. QED
      BY <1>3, <2>3, <2>4, <2>5
  <1>4. \A c \in cards : Trick!Rank(cards, c) + 1 \in 1..n
    <2>1. ASSUME NEW k \in 0..n - 1 PROVE k + 1 \in 1..n
      BY <1>1
    <2>2. QED
      BY <1>2, <2>1
  <1>5. ASSUME NEW c \in cards, NEW d \in cards, R[c] = R[d] PROVE c = d
    <2>1. Trick!Rank(cards, c) \in 0..n - 1 /\ Trick!Rank(cards, d) \in 0..n - 1
      BY <1>2
    <2>2. Trick!Rank(cards, c) + 1 = Trick!Rank(cards, d) + 1
      BY <1>5
    <2>3. Trick!Rank(cards, c) = Trick!Rank(cards, d)
      BY <1>1, <2>1, <2>2
    <2>4. QED
      BY <1>3, <2>3
  <1>6. R \in Injection(cards, 1..n)
    BY <1>4, <1>5 DEF Injection, IsInjective
  <1>7. IsFiniteSet(1..n) /\ Cardinality(1..n) = n
    BY <1>1, FS_Interval
  <1>8. R \in Surjection(cards, 1..n)
    BY <1>6, <1>7, FS_Injection
  <1>9. ASSUME NEW i \in 1..n PROVE \E c \in cards : Trick!Rank(cards, c) = i - 1
    <2>1. PICK c \in cards : R[c] = i
      BY <1>8 DEF Surjection
    <2>2. Trick!Rank(cards, c) \in 0..n - 1 /\ Trick!Rank(cards, c) + 1 = i
      BY <1>2, <2>1
    <2>3. Trick!Rank(cards, c) = i - 1
      BY <1>1, <2>2
    <2>4. QED
      BY <2>3
  <1>10. QED
    BY <1>3, <1>4, <1>9

(* So the cards by their places are a sorted list of them.                 *)
LEMMA SortedLists ==
  ASSUME Card \subseteq Int, NEW cards \in SUBSET Card
  PROVE  Lists(Trick!Sorted(cards), cards)
  <1> DEFINE n == Cardinality(cards)
             s == Trick!Sorted(cards)
  <1>1. n \in Nat
    BY RulesAssumption, FS_Subset, FS_CardinalityType
  <1>2. s = [i \in 1..n |-> CHOOSE c \in cards : Trick!Rank(cards, c) = i - 1]
    BY SameCounting DEF Trick!Sorted
  <1>3. \A i \in 1..n : s[i] \in cards /\ Trick!Rank(cards, s[i]) = i - 1
    BY <1>2, RanksAreTaken
  <1>4. s \in [1..n -> cards]
    BY <1>2, <1>3
  <1> HIDE DEF s
  <1>5. ASSUME NEW c \in cards PROVE \E i \in 1..n : s[i] = c
    <2>1. PICK i \in 1..n : i = Trick!Rank(cards, c) + 1
      BY RanksAreTaken
    <2>2. IsFiniteSet({d \in cards : Trick!Before(d, c)})
      BY RulesAssumption, FS_Subset
    <2>3. Trick!Rank(cards, c) \in Nat
      BY <2>2, FS_CardinalityType, SameCounting DEF Trick!Rank
    <2>4. Trick!Rank(cards, c) = i - 1
      BY <2>1, <2>3
    <2>5. s[i] \in cards /\ Trick!Rank(cards, s[i]) = Trick!Rank(cards, c)
      BY <1>3, <2>4
    <2>6. \A d \in cards : Trick!Rank(cards, d) = Trick!Rank(cards, c) => d = c
      BY RanksAreTaken
    <2>7. QED
      BY <2>5, <2>6
  <1>6. ASSUME NEW i \in 1..n, NEW j \in 1..n, s[i] = s[j] PROVE i = j
    <2>1. i - 1 = j - 1
      BY <1>3, <1>6
    <2>2. QED
      BY <1>1, <2>1
  <1>7. ASSUME NEW i \in 1..n, NEW j \in 1..n, i < j PROVE OrderValue[s[i]] <= OrderValue[s[j]]
    <2>1. s[i] \in cards /\ s[j] \in cards
      BY <1>3
    <2>2. Trick!Before(s[j], s[i]) => j - 1 < i - 1
      BY <1>3, <2>1, RanksGrow
    <2>3. ~Trick!Before(s[j], s[i])
      BY <1>1, <1>7, <2>2
    <2>4. \A c \in cards : OrderValue[c] \in 3..15
      BY RulesAssumption
    <2>5. OrderValue[s[i]] \in 3..15 /\ OrderValue[s[j]] \in 3..15
      BY <2>1, <2>4
    <2>6. ~(OrderValue[s[j]] < OrderValue[s[i]])
      BY <2>3 DEF Trick!Before
    <2>7. QED
      BY <2>5, <2>6
  <1>8. DOMAIN s = 1..n
    BY <1>4
  <1>9. QED
    BY <1>4, <1>5, <1>6, <1>7, <1>8 DEF Lists, s

(* For every deck and every order of equal cards the run `rules` could be  *)
(* given: analyzeHand as the models define it by sets and the code's loop  *)
(* over the sorted cards agree on whatever is laid in a trick and on every *)
(* set one card away from that (analyzeHand).  Cards are numbers, as the   *)
(* code has them.                                                          *)
THEOREM SortedReadingAgrees ==
  ASSUME Card \subseteq Int
  PROVE  Trick!Spec => []Trick!TypeMatchesSortedReading
  <1>1. ASSUME NEW cards \in SUBSET Card, cards # {}
        PROVE  Trick!TypeOf(cards) = Trick!SortedType(cards)
    <2>1. Lists(Trick!Sorted(cards), cards)
      BY SortedLists
    <2>2. TypeOf(cards) = LoopType(ValuesOf(Trick!Sorted(cards)))
      BY <1>1, <2>1, TypeIsReadOff
    <2>3. Trick!SortedType(cards) = Trick!LoopType(ValuesOf(Trick!Sorted(cards)))
      BY DEF Trick!SortedType, ValuesOf
    <2>4. QED
      BY <2>2, <2>3, SameRules
  <1> DEFINE Laid == boardCards \in SUBSET Card /\ boardCards # {}
  <1>2. ASSUME NEW cards \in Trick!LegalPlays PROVE cards \in SUBSET Card /\ cards # {}
    <2>1. cards \in SUBSET Card /\ TypeOf(cards) # "INVALID"
      BY SameRules DEF Trick!LegalPlays
    <2>2. TypeOf({}) = "INVALID"
      BY FS_EmptySet DEF TypeOf
    <2>3. QED
      BY <2>1, <2>2
  <1>3. Trick!Init => Laid
    BY <1>2 DEF Trick!Init
  <1>4. Laid /\ [Trick!Next]_boardCards => Laid'
    <2>1. ASSUME Laid, Trick!Next PROVE Laid'
      <3>1. PICK cards \in Trick!LegalPlays : boardCards' = cards
        BY <2>1 DEF Trick!Next, Trick!Beat
      <3>2. QED
        BY <1>2, <3>1
    <2>2. QED
      BY <2>1
  <1>5. ASSUME Laid PROVE Trick!TypeMatchesSortedReading
    <2>1. ASSUME NEW c \in Card
          PROVE  Trick!TypeOf(boardCards \cup {c}) = Trick!SortedType(boardCards \cup {c})
      BY <1>1, <1>5, <2>1
    <2>2. ASSUME NEW c \in Card, boardCards # {c}
          PROVE  Trick!TypeOf(boardCards \ {c}) = Trick!SortedType(boardCards \ {c})
      <3>1. boardCards \ {c} # {} /\ boardCards \ {c} \in SUBSET Card
        BY <1>5, <2>2
      <3>2. QED
        BY <1>1, <3>1
    <2>3. QED
      BY <2>1, <2>2 DEF Trick!TypeMatchesSortedReading
  <1>6. QED
    BY <1>3, <1>4, <1>5, PTL DEF Trick!Spec

(* Whatever is laid on a combination is stronger than it, and there are    *)
(* twenty-eight degrees of strength: a trick has no more combinations than *)
(* that, with any deck, although canBeat is not transitive (canBeat).      *)
THEOREM BeatingIsBounded ==
  ASSUME NEW cards \in SUBSET Card, cards # {}, NEW board \in SUBSET Card, board # {},
         canBeat(cards, board)
  PROVE  Strength(board) < Strength(cards) /\ {Strength(board), Strength(cards)} \subseteq 3..30
  <1>1. Power(cards) \in 3..15 /\ Power(board) \in 3..15
    <2>1. ASSUME NEW S \in SUBSET Card, S # {} PROVE Power(S) \in 3..15
      <3>1. Values(S) \in SUBSET (3..15) /\ Values(S) # {}
        BY <2>1, RulesAssumption DEF Values
      <3>2. \E v \in Values(S) : \A w \in Values(S) : w <= v
        BY <3>1
      <3>3. Power(S) \in Values(S)
        BY <3>2 DEF Power
      <3>4. QED
        BY <3>1, <3>3
    <2>2. QED
      BY <2>1
  <1>2. CASE TypeOf(board) = "SINGLE" /\ Power(board) = HighestValue /\ TypeOf(cards) = "QUAD"
    BY <1>1, <1>2 DEF Strength, HighestValue
  <1>3. CASE TypeOf(cards) = TypeOf(board) /\ Power(cards) > Power(board)
    BY <1>1, <1>3 DEF Strength, HighestValue
  <1>4. QED
    BY <1>2, <1>3 DEF canBeat, analyzeHand

(* In a room, the table is cleared or gets a stronger combination: no      *)
(* play, pass, departure or timer puts a weaker one there (playCards,      *)
(* nextTurnIndex).                                                         *)
THEOREM TableGetsStronger ==
  Spec => [][boardCards # {} /\ boardCards' \notin {{}, boardCards}
               => Strength(boardCards) < Strength(boardCards')]_vars
  <1> DEFINE Stronger == boardCards # {} /\ boardCards' \notin {{}, boardCards}
                           => Strength(boardCards) < Strength(boardCards')
  <1>1. ASSUME IInv, [Next]_vars PROVE Stronger
    <2>1. boardCards \in SUBSET Card /\ hand \in [Player -> SUBSET Card]
      BY <1>1 DEF IInv, TypeOK
    <2>2. ASSUME NEW p \in Player, NEW cards \in SUBSET hand[p], playCards(p, cards)
          PROVE  Stronger
      <3>1. canBeat(cards, boardCards) /\ cards \in SUBSET Card
        BY <2>1, <2>2 DEF playCards
      <3>2. boardCards' = {} \/ boardCards' = cards
        BY <2>2, WinClears DEF playCards, ClearTable, nextTurnIndex, NewTrick
      <3>3. CASE boardCards # {} /\ cards # {} /\ boardCards' = cards
        BY <2>1, <3>1, <3>3, BeatingIsBounded
      <3>4. QED
        BY <3>2, <3>3
    <2>3. ASSUME NEW p \in Player,
                 \/ addPlayer(p) \/ removePlayer(p) \/ onPlayerDisconnect(p)
                 \/ passTurn(p) \/ PlayElsewhere(p)
          PROVE  boardCards' \in {{}, boardCards}
      BY <2>3, WinClears DEF addPlayer, removePlayer, onPlayerDisconnect, passTurn,
         PlayElsewhere, nextTurnIndex, NewTrick, ClearTable, turnVars, roomVars
    <2>4. ASSUME NEW p \in Player, NEW ready \in BOOLEAN, setPlayerReady(p, ready)
          PROVE  boardCards' \in {{}, boardCards}
      BY <2>4 DEF setPlayerReady, ClearTable, turnVars, vars
    <2>5. ASSUME startPlayingPhase \/ TurnTimeout \/ Crash \/ UNCHANGED vars
          PROVE  boardCards' \in {{}, boardCards}
      BY <2>3, <2>5 DEF startPlayingPhase, TurnTimeout, Crash, ClearTable, turnVars, roomVars,
         vars
    <2>6. QED
      BY <1>1, <2>2, <2>3, <2>4, <2>5 DEF Next
  <1>2. QED
    BY <1>1, Invariance, PTL DEF Spec

----------------------------------------------------------------------------
(* Nobody is kept waiting: every step brings a connected player nearer to  *)
(* the turn.                                                               *)

Height == IF boardCards = {} THEN 0 ELSE Strength(boardCards)

(* What Wait(q) counts beside the connected seats.                         *)
Rest(q) ==
  IF ~InRange THEN 2 * MaxPlayers + 31
  ELSE IF q \notin hasPassed THEN Turns!Distance(SeatAt(currentPlayerIndex), q)
  ELSE MaxPlayers + (30 - Height) + Cardinality(Seated \ hasPassed)
         + (IF SeatAt(currentPlayerIndex) \in hasPassed THEN 1 ELSE 0)

(* Every combination has one of twenty-eight degrees of strength.          *)
LEMMA StrengthBounded ==
  ASSUME NEW cards \in SUBSET Card, cards # {}
  PROVE  Strength(cards) \in 3..30
  <1>1. Values(cards) \in SUBSET (3..15) /\ Values(cards) # {}
    BY RulesAssumption DEF Values
  <1>2. \E v \in Values(cards) : \A w \in Values(cards) : w <= v
    BY <1>1
  <1>3. Power(cards) \in Values(cards)
    BY <1>2 DEF Power
  <1>4. QED
    BY <1>1, <1>3 DEF Strength, HighestValue

(* The parts of the count are numbers with bounds.                         *)
LEMMA WaitParts ==
  ASSUME TypeOK, SeatsDistinct
  PROVE  /\ Height \in 0..30
         /\ IsFiniteSet(Seated) /\ Cardinality(Seated) \in 0..MaxPlayers
         /\ \A S \in SUBSET Seated : IsFiniteSet(S) /\ Cardinality(S) \in 0..MaxPlayers
         /\ \A q \in Seated \cap hasPassed :
              Cardinality(Seated \ hasPassed) \in 0..(MaxPlayers - 1)
  <1>1. Height \in 0..30
    <2>1. boardCards \in SUBSET Card
      BY DEF TypeOK
    <2>2. boardCards # {} => Strength(boardCards) \in 3..30
      BY <2>1, StrengthBounded
    <2>3. QED
      BY <2>2 DEF Height
  <1>2. IsFiniteSet(Seated) /\ Cardinality(Seated) \in 0..MaxPlayers
    <2>1. Len(seats) \in 0..MaxPlayers
      BY GameAssumption DEF TypeOK
    <2>2. QED
      BY <2>1, SeatsCounted DEF TypeOK
  <1>3. ASSUME NEW S \in SUBSET Seated
        PROVE  IsFiniteSet(S) /\ Cardinality(S) \in 0..MaxPlayers
    <2>1. IsFiniteSet(S) /\ Cardinality(S) <= Cardinality(Seated)
      BY <1>2, FS_Subset
    <2>2. Cardinality(S) \in Nat
      BY <2>1, FS_CardinalityType
    <2>3. QED
      BY <1>2, <2>1, <2>2, GameAssumption
  <1>4. ASSUME NEW q \in Seated \cap hasPassed
        PROVE  Cardinality(Seated \ hasPassed) \in 0..(MaxPlayers - 1)
    <2>1. /\ Seated \ hasPassed \in SUBSET (Seated \ {q})
          /\ IsFiniteSet(Seated \ {q}) /\ Cardinality(Seated \ {q}) = Cardinality(Seated) - 1
      BY <1>2, FS_RemoveElement
    <2>2. Cardinality(Seated \ hasPassed) <= Cardinality(Seated \ {q})
      BY <2>1, FS_Subset
    <2>3. Cardinality(Seated \ hasPassed) \in Nat
      BY <1>3
    <2>4. QED
      BY <1>2, <2>1, <2>2, <2>3, GameAssumption
  <1>5. QED
    BY <1>1, <1>2, <1>3, <1>4

(* The distance round the table: less than the number of seats, none only  *)
(* from oneself, and a seat on the way shortens it.                        *)
LEMMA OnTheWay ==
  ASSUME IInv, NEW p \in Seated, NEW q \in Seated
  PROVE  /\ Turns!Distance(p, q) \in 0..(Len(seats) - 1)
         /\ \A r \in Seated \ {p, q} :
              Turns!Distance(p, r) <= Turns!Distance(p, q)
                => Turns!Distance(r, q) < Turns!Distance(p, q)
  <1> DEFINE n == Len(seats)
             P(r) == Turns!Position(r)
             D(i, j) == IF i <= j THEN j - i ELSE j - i + n
  <1>1. n \in Nat /\ \A r \in Seated : P(r) \in 1..n /\ seats[P(r)] = r
    BY SeatFacts
  <1>2. n \in Nat \ {0}
    BY <1>1
  <1>3. \A i, j \in 1..n : (j - i) % n = D(i, j)
    <2>1. 0 \in 0..(n - 1)
      BY <1>2
    <2>2. QED
      BY <1>2, <2>1, RoundTheRing
  <1>4. \A r, t \in Seated : Turns!Distance(r, t) = D(P(r), P(t))
    BY <1>1, <1>3 DEF Turns!Distance
  <1> HIDE DEF P, n
  <1>5. D(P(p), P(q)) \in 0..(n - 1)
    BY <1>1
  <1>6. ASSUME NEW r \in Seated \ {p, q}, D(P(p), P(r)) <= D(P(p), P(q))
        PROVE  D(P(r), P(q)) < D(P(p), P(q))
    <2>1. P(r) # P(p) /\ P(r) # P(q)
      BY <1>1
    <2>2. QED
      BY <1>1, <1>6, <2>1
  <1>7. QED
    BY <1>4, <1>5, <1>6 DEF n

(* The bounds of the count.                                                *)
LEMMA RestBounded ==
  ASSUME IInv, state = "PLAYING", NEW q \in Seated
  PROVE  /\ Rest(q) \in 0..(2 * MaxPlayers + 31)
         /\ InRange => Rest(q) <= 2 * MaxPlayers + 30
         /\ InRange /\ q \notin hasPassed => Rest(q) < MaxPlayers
         /\ InRange /\ q \in hasPassed => Rest(q) >= MaxPlayers
  <1>1. CASE ~InRange
    BY <1>1, GameAssumption DEF Rest
  <1>2. CASE InRange /\ q \notin hasPassed
    <2>1. SeatAt(currentPlayerIndex) \in Seated
      BY <1>2, TurnIsAtIndex
    <2>2. Rest(q) \in 0..(Len(seats) - 1) /\ Len(seats) <= MaxPlayers /\ Len(seats) \in Nat
      BY <1>2, <2>1, OnTheWay, SeatFacts DEF Rest, IInv, TypeOK
    <2>3. QED
      BY <1>2, <2>2, GameAssumption
  <1>3. CASE InRange /\ q \in hasPassed
    <2> DEFINE c == Cardinality(Seated \ hasPassed)
               b == IF SeatAt(currentPlayerIndex) \in hasPassed THEN 1 ELSE 0
    <2>1. Height \in 0..30 /\ c \in 0..(MaxPlayers - 1) /\ b \in 0..1
      BY <1>3, WaitParts DEF IInv
    <2>2. Rest(q) = MaxPlayers + (30 - Height) + c + b
      BY <1>3 DEF Rest
    <2> HIDE DEF c, b
    <2>3. QED
      BY <1>3, <2>1, <2>2, GameAssumption
  <1>4. QED
    BY <1>1, <1>2, <1>3


(* Somebody of a set of seats is the nearest.                              *)
LEMMA NearestIsNear ==
  ASSUME IInv, NEW p \in Seated, NEW S \in SUBSET Seated, S # {}
  PROVE  /\ Turns!Nearest(p, S) \in S
         /\ \A r \in S : Turns!Distance(p, Turns!Nearest(p, S)) <= Turns!Distance(p, r)
  <1> DEFINE D(r) == Turns!Distance(p, r)
             V == {D(r) : r \in S}
  <1>1. \A r \in S : D(r) \in 0..3
    <2>1. Len(seats) \in Nat /\ Len(seats) <= MaxPlayers
      BY SeatFacts DEF IInv, TypeOK
    <2>2. \A r \in S : D(r) \in 0..(Len(seats) - 1)
      BY OnTheWay
    <2> HIDE DEF D
    <2>3. QED
      BY <2>1, <2>2, GameAssumption
  <1>2. V \in SUBSET (0..3) /\ V # {}
    BY <1>1
  <1>3. \E v \in V : \A w \in V : v <= w
    <2> HIDE DEF V
    <2>1. \A v \in V : v = 0 \/ v = 1 \/ v = 2 \/ v = 3
      BY <1>2
    <2>2. V # {}
      BY <1>2
    <2>3. CASE 0 \in V
      BY <2>1, <2>3
    <2>4. CASE 0 \notin V /\ 1 \in V
      BY <2>1, <2>4
    <2>5. CASE 0 \notin V /\ 1 \notin V /\ 2 \in V
      BY <2>1, <2>5
    <2>6. CASE 0 \notin V /\ 1 \notin V /\ 2 \notin V
      BY <2>1, <2>2, <2>6
    <2>7. QED
      BY <2>3, <2>4, <2>5, <2>6
  <1>4. \E r \in S : \A t \in S : D(r) <= D(t)
    BY <1>3
  <1>5. QED
    BY <1>4 DEF Turns!Nearest

(* The bounds as one formula of a state.                                   *)
RestInBounds ==
  IInv /\ state = "PLAYING" =>
    \A q \in Seated :
      /\ Rest(q) \in 0..(2 * MaxPlayers + 31)
      /\ InRange => Rest(q) <= 2 * MaxPlayers + 30
      /\ InRange /\ q \notin hasPassed => Rest(q) < MaxPlayers
      /\ InRange /\ q \in hasPassed => Rest(q) >= MaxPlayers

(* They hold before and after a step.                                      *)
LEMMA RestInBoundsTwice == RestInBounds /\ RestInBounds'
  <1>1. RestInBounds
    BY RestBounded DEF RestInBounds
  <1>2. QED
    BY <1>1, PTL

(* What a move makes of the trick: nextTurnIndex keeps what its caller     *)
(* passes, or begins a new trick with the connected players.               *)
LEMMA TrickAfterMove ==
  ASSUME NEW out, NEW away, NEW own, NEW board,
         nextTurnIndex(out, away, own, board)
  PROVE  \/ hasPassed' = out /\ lastTurnOwnerId' = own /\ boardCards' = board
         \/ /\ hasPassed' = out \cap away
            /\ lastTurnOwnerId' = NoPlayer
            /\ boardCards' = {}
  BY DEF nextTurnIndex, NewTrick

(* A stronger table with no more players in the trick counts less.         *)
LEMMA StrongerCountsLess ==
  ASSUME NEW h \in 0..30, NEW k \in 0..30, h < k,
         NEW c \in Nat, NEW d \in Nat, d <= c, NEW b \in Nat
  PROVE  MaxPlayers + (30 - k) + d + 0 < MaxPlayers + (30 - h) + c + b
  <1>1. MaxPlayers \in Int
    BY GameAssumption
  <1>2. QED
    BY <1>1

(* A move of the player on turn brings q nearer: through the seats while q *)
(* is in the trick, and by a stronger table or one more pass while not.    *)
LEMMA MoveBringsNearer ==
  ASSUME IInv, IInv', state = "PLAYING", InRange, state' = "PLAYING", seats' = seats,
         NEW p, p = SeatAt(currentPlayerIndex),
         NEW out \in {hasPassed, hasPassed \cup {p}},
         NEW away \in {isDisconnected, isDisconnected \cup {p}},
         NEW own, NEW board \in SUBSET Card,
         nextTurnIndex(out, away, own, board),
         \/ p \in out /\ board = boardCards
         \/ canBeat(board, boardCards) /\ board # {},
         NEW q \in Seated \ away, q # p, Turn' # q
  PROVE  Rest(q)' < Rest(q)
  <1> DEFINE others == Seated \ (out \cup away \cup {p})
             next == SeatAt(currentPlayerIndex')
             c == Cardinality(Seated \ hasPassed)
  <1>1. /\ InRange' /\ Turn' = next /\ SeatAt(currentPlayerIndex)' = next
        /\ next \in Seated \ (away \cup hasPassed') /\ Seated' = Seated
    <2>1. seats \in Seq(Player) /\ Len(seats) >= 1 /\ currentPlayerIndex \in Int
      BY SeatFacts DEF IInv, TypeOK, RunningRoom
    <2>2. currentPlayerIndex' \in 0..(Len(seats) - 1) /\ next \notin away \cup hasPassed'
      BY <2>1, NextTurn
    <2>3. InRange'
      BY <2>2 DEF InRange
    <2>4. next = SeatAt(currentPlayerIndex)'
      BY DEF SeatAt
    <2>5. Turn' = next
      BY <2>3, <2>4 DEF Turn
    <2>6. Turn' \in Seated
      BY NextTurnGoesOn
    <2>7. Seated' = Seated
      BY DEF Seated
    <2>8. QED
      BY <2>2, <2>3, <2>4, <2>5, <2>6, <2>7
  <1>2. /\ p \in Seated
        /\ RestInBounds /\ RestInBounds'
    BY TurnIsAtIndex, RestInBoundsTwice DEF Turn
  <1>3. q \in hasPassed <=> q \in out
    OBVIOUS
  <1>4. CASE q \notin hasPassed
    <2>1. q \in others
      BY <1>3, <1>4
    <2>2. Turns!GoOn(p, out, away, own)
      BY NextTurnGoesOn
    <2>3. next = Turns!Nearest(p, others)
      BY <1>1, <2>1, <2>2 DEF Turns!GoOn, Turns!Seated, Seated, Turn
    <2>4. next \in others /\ Turns!Distance(p, next) <= Turns!Distance(p, q)
      BY <1>2, <2>1, <2>3, NearestIsNear
    <2>5. Turns!Distance(next, q) < Turns!Distance(p, q)
      BY <1>1, <1>2, <2>4, OnTheWay
    <2>6. Rest(q) = Turns!Distance(p, q)
      BY <1>4 DEF Rest
    <2>7. q \notin hasPassed'
      BY <1>3, <1>4, TrickAfterMove
    <2>8. Rest(q)' = Turns!Distance(next, q)
      BY <1>1, <2>7 DEF Rest, Turns!Distance, Turns!Position
    <2>9. QED
      BY <2>5, <2>6, <2>8
  <1>5. CASE q \in hasPassed /\ q \notin hasPassed'
    <2>1. Rest(q) >= MaxPlayers /\ Rest(q) \in Int
      BY <1>2, <1>5 DEF RestInBounds
    <2>2. Rest(q)' < MaxPlayers /\ Rest(q)' \in Int
      BY <1>1, <1>2, <1>5 DEF RestInBounds
    <2>3. QED
      BY <2>1, <2>2, GameAssumption
  <1>6. CASE q \in hasPassed /\ q \in hasPassed'
    <2>1. hasPassed' = out /\ boardCards' = board
      BY <1>6, TrickAfterMove
    <2> DEFINE b == IF p \in hasPassed THEN 1 ELSE 0
               cc == Cardinality(Seated \ out)
    <2>2. Rest(q) = MaxPlayers + (30 - Height) + c + b
      BY <1>6 DEF Rest
    <2>3. Rest(q)' = MaxPlayers + (30 - Height') + cc + 0
      BY <1>1, <1>6, <2>1 DEF Rest
    <2>4. Height \in 0..30 /\ Height' \in 0..30 /\ c \in Nat /\ cc \in Nat
      <3>1. Height \in 0..30 /\ c \in Nat /\ cc \in Nat
        BY WaitParts DEF IInv
      <3>2. Height' \in 0..30
        BY StrengthBounded, <2>1 DEF Height
      <3>3. QED
        BY <3>1, <3>2
    <2>5. cc <= c /\ (out # hasPassed => cc < c)
      <3>1. IsFiniteSet(Seated)
        BY WaitParts DEF IInv
      <3>2. CASE out = hasPassed
        BY <2>4, <3>2
      <3>3. CASE out # hasPassed
        <4>1. Seated \ out = (Seated \ hasPassed) \ {p} /\ p \in Seated \ hasPassed
          BY <1>2, <3>3
        <4>2. IsFiniteSet(Seated \ hasPassed)
          BY <3>1, FS_Subset
        <4>3. cc = c - 1
          BY <4>1, <4>2, FS_RemoveElement
        <4>4. QED
          BY <2>4, <4>3
      <3>4. QED
        BY <3>2, <3>3
    <2>6. CASE p \in out /\ board = boardCards
      <3>1. Height' = Height
        BY <2>1, <2>6 DEF Height
      <3>2. b = 1 \/ cc < c
        BY <2>5, <2>6
      <3> HIDE DEF b, cc, c
      <3>3. b \in 0..1
        BY DEF b
      <3>4. QED
        BY <2>2, <2>3, <2>4, <2>5, <3>1, <3>2, <3>3, GameAssumption
    <2>7. CASE canBeat(board, boardCards) /\ board # {}
      <3>1. Height < Height'
        <4>1. boardCards \in SUBSET Card
          BY DEF IInv, TypeOK
        <4>2. CASE boardCards = {}
          BY <2>1, <2>7, <4>2, StrengthBounded DEF Height
        <4>3. CASE boardCards # {}
          BY <2>1, <2>7, <4>1, <4>3, BeatingIsBounded DEF Height
        <4>4. QED
          BY <4>2, <4>3
      <3> HIDE DEF b, cc, c
      <3>2. b \in Nat
        BY DEF b
      <3>3. cc <= c
        BY <2>5
      <3>4. MaxPlayers + (30 - Height') + cc + 0 < MaxPlayers + (30 - Height) + c + b
        BY <2>4, <3>1, <3>2, <3>3, StrongerCountsLess
      <3>5. QED
        BY <2>2, <2>3, <3>4
    <2>8. QED
      BY <2>6, <2>7
  <1>7. QED
    BY <1>4, <1>5, <1>6


(* The count is the connected seats and the rest.                          *)
LEMMA WaitIsSum == \A q : Wait(q) = Cardinality(Active) + Rest(q)
  BY DEF Wait, Rest, Height

(* While the seats stay, a step leaves the connected players as they are   *)
(* or loses one of them.                                                   *)
LEMMA ActiveAfter ==
  ASSUME TypeOK, SeatsDistinct, seats' = seats,
         \/ isDisconnected' = isDisconnected
         \/ \E p \in Active : isDisconnected' = isDisconnected \cup {p}
  PROVE  /\ Cardinality(Active) \in Nat /\ Cardinality(Active') \in Nat
         /\ Cardinality(Active') <= Cardinality(Active)
         /\ isDisconnected' # isDisconnected => Cardinality(Active') < Cardinality(Active)
  <1>1. Seated' = Seated
    BY DEF Seated
  <1>2. IsFiniteSet(Active) /\ Cardinality(Active) \in Nat
    BY WaitParts DEF Active
  <1>3. CASE isDisconnected' = isDisconnected
    <2>1. Active' = Active
      BY <1>1, <1>3 DEF Active
    <2>2. QED
      BY <1>2, <1>3, <2>1
  <1>4. CASE \E p \in Active : isDisconnected' = isDisconnected \cup {p}
    <2>1. PICK p \in Active : isDisconnected' = isDisconnected \cup {p}
      BY <1>4
    <2>2. Active' = Active \ {p}
      BY <1>1, <2>1 DEF Active
    <2>3. Cardinality(Active') = Cardinality(Active) - 1
      BY <1>2, <2>2, FS_RemoveElement
    <2>4. Cardinality(Active') \in Nat
      BY <1>2, <2>2, FS_RemoveElement, FS_CardinalityType
    <2>5. QED
      BY <1>2, <2>3, <2>4
  <1>5. QED
    BY <1>3, <1>4

(* A turn that was lost is the farthest: whoever finds it, it is nearer.   *)
LEMMA FoundTurnIsNearer ==
  ASSUME IInv, IInv', state = "PLAYING", state' = "PLAYING", seats' = seats, ~InRange,
         NEW out, NEW away, NEW own, NEW board,
         nextTurnIndex(out, away, own, board),
         NEW q \in Seated
  PROVE  Rest(q)' < Rest(q)
  <1>1. InRange'
    <2>1. seats \in Seq(Player) /\ Len(seats) >= 1 /\ currentPlayerIndex \in Int
      BY SeatFacts DEF IInv, TypeOK, RunningRoom
    <2>2. QED
      BY <2>1, NextTurn DEF InRange
  <1>2. Rest(q) = 2 * MaxPlayers + 31
    BY DEF Rest
  <1>3. Rest(q)' \in Int /\ Rest(q)' <= 2 * MaxPlayers + 30
    <2>1. q \in Seated'
      BY DEF Seated
    <2>2. QED
      BY <1>1, <2>1, RestInBoundsTwice DEF RestInBounds
  <1>4. QED
    BY <1>2, <1>3, GameAssumption

(* A broken connection of somebody who is not on turn keeps q as near.     *)
LEMMA FlagKeepsNear ==
  ASSUME IInv, IInv', state = "PLAYING", state' = "PLAYING", seats' = seats,
         NEW p, ~HoldsTurn(p), hasPassed' = hasPassed \cup {p}, UNCHANGED turnVars,
         NEW q \in Seated, q # p
  PROVE  Rest(q)' <= Rest(q)
  <1>1. /\ InRange' = InRange /\ SeatAt(currentPlayerIndex)' = SeatAt(currentPlayerIndex)
        /\ Height' = Height /\ Seated' = Seated
        /\ q \in hasPassed' <=> q \in hasPassed
    BY DEF turnVars, InRange, SeatAt, Height, Seated
  <1>2. Rest(q) \in Int
    BY RestBounded
  <1>3. CASE ~InRange
    BY <1>1, <1>2, <1>3 DEF Rest
  <1>4. CASE InRange /\ q \notin hasPassed
    BY <1>1, <1>2, <1>4 DEF Rest, Turns!Distance, Turns!Position
  <1>5. CASE InRange /\ q \in hasPassed
    <2> DEFINE b == IF SeatAt(currentPlayerIndex) \in hasPassed THEN 1 ELSE 0
               c == Cardinality(Seated \ hasPassed)
               d == Cardinality(Seated \ (hasPassed \cup {p}))
    <2>1. Rest(q) = MaxPlayers + (30 - Height) + c + b
      BY <1>5 DEF Rest
    <2>2. Rest(q)' = MaxPlayers + (30 - Height) + d + b
      <3>1. SeatAt(currentPlayerIndex) # p
        BY <1>5 DEF HoldsTurn
      <3>2. b = IF SeatAt(currentPlayerIndex)' \in hasPassed' THEN 1 ELSE 0
        BY <1>1, <3>1
      <3>3. QED
        BY <1>1, <1>5, <3>2 DEF Rest
    <2>3. d <= c /\ c \in Nat /\ d \in Nat /\ Height \in 0..30
      <3>1. /\ IsFiniteSet(Seated \ hasPassed) /\ c \in Nat /\ d \in Nat
            /\ Height \in 0..30
        BY WaitParts DEF IInv
      <3>2. Seated \ (hasPassed \cup {p}) \in SUBSET (Seated \ hasPassed)
        OBVIOUS
      <3>3. QED
        BY <3>1, <3>2, FS_Subset
    <2>4. b \in Nat
      OBVIOUS
    <2> HIDE DEF b, c, d
    <2>5. QED
      BY <2>1, <2>2, <2>3, <2>4, GameAssumption
  <1>6. QED
    BY <1>3, <1>4, <1>5

(* A given-up seat changes the vector.                                     *)
LEMMA LeaveChangesSeats ==
  ASSUME IInv, state = "PLAYING", NEW p \in Player, removePlayer(p)
  PROVE  seats' # seats
  <1>1. seats \in Seq(Player) /\ Len(seats) \in Nat /\ Len(seats) >= 1 /\ SeatsDistinct
    BY SeatFacts DEF IInv, RunningRoom
  <1>2. CASE ClearTable("WAITING")
    BY <1>1, <1>2 DEF ClearTable
  <1>3. CASE p \in Seated /\ seats' = SeatsWithout(p)
    <2>1. Len(SeatsWithout(p)) = Len(seats) - 1
      BY <1>1, <1>3, SeatsWithoutPlayer
    <2>2. QED
      BY <1>1, <1>3, <2>1
  <1>4. QED
    BY <1>2, <1>3 DEF removePlayer

(* A move or a broken connection leaves q nearer, or with the turn.        *)
LEMMA StepBringsNearer ==
  ASSUME IInv, IInv', Next, ~UNCHANGED roomVars, state = "PLAYING", state' = "PLAYING", seats' = seats,
         NEW q \in Active, q \notin isDisconnected', ~HoldsTurn(q), ~HoldsTurn(q)'
  PROVE  Wait(q)' < Wait(q)
  <1> DEFINE Moved(out, away, own, board) == nextTurnIndex(out, away, own, board)
             Holder == SeatAt(currentPlayerIndex)
  <1>1. q \in Seated /\ (InRange => q # Holder) /\ Turn' # q
    BY GameAssumption, SeatFacts DEF Active, HoldsTurn, Turn, SeatAt, InRange
  <1>2. ASSUME NEW p \in Player, NEW cards \in SUBSET hand[p], playCards(p, cards)
        PROVE  Rest(q)' < Rest(q) /\ isDisconnected' = isDisconnected
    <2>1. /\ InRange /\ p = Holder /\ isDisconnected' = isDisconnected
          /\ canBeat(cards, boardCards)
          /\ nextTurnIndex(hasPassed, isDisconnected, p, cards)
      BY <1>2, WinClears DEF playCards, HoldsTurn, ClearTable
    <2>2. cards \in SUBSET Card /\ cards # {}
      <3>1. hand \in [Player -> SUBSET Card] /\ boardCards \in SUBSET Card
        BY DEF IInv, TypeOK
      <3>2. cards # {}
        BY <2>1, NothingBeats
      <3>3. QED
        BY <3>1, <3>2
    <2>3. q \in Seated \ isDisconnected /\ q # p
      BY <1>1, <2>1 DEF Active
    <2>4. QED
      BY <1>1, <2>1, <2>2, <2>3, MoveBringsNearer
  <1>3. ASSUME NEW p \in Player, passTurn(p)
        PROVE  Rest(q)' < Rest(q) /\ isDisconnected' = isDisconnected
    <2>1. /\ isDisconnected' = isDisconnected /\ MayHoldTurn(p)
          /\ nextTurnIndex(PassedAtIndex, isDisconnected, lastTurnOwnerId, boardCards)
      BY <1>3 DEF passTurn
    <2>2. CASE ~InRange
      BY <1>1, <2>1, <2>2, FoundTurnIsNearer
    <2>3. CASE InRange
      <3>1. p = Holder /\ PassedAtIndex = hasPassed \cup {p}
        BY <2>1, <2>3 DEF MayHoldTurn, PassedAtIndex
      <3>2. q \in Seated \ isDisconnected /\ q # p /\ boardCards \in SUBSET Card
        BY <1>1, <2>3, <3>1 DEF Active, IInv, TypeOK
      <3>3. p \in PassedAtIndex /\ PassedAtIndex \in {hasPassed, hasPassed \cup {p}}
        BY <3>1
      <3>4. QED
        BY <1>1, <2>1, <2>3, <3>1, <3>2, <3>3, MoveBringsNearer
    <2>4. QED
      BY <2>2, <2>3
  <1>4. ASSUME NEW p \in Player, onPlayerDisconnect(p)
        PROVE  /\ p \in Active /\ isDisconnected' = isDisconnected \cup {p}
               /\ Rest(q)' <= Rest(q)
    <2> DEFINE out == hasPassed \cup {p}
               away == isDisconnected \cup {p}
    <2>1. /\ p \in Active /\ isDisconnected' = away
          /\ \/ MayHoldTurn(p) /\ nextTurnIndex(out, away, lastTurnOwnerId, boardCards)
             \/ ~HoldsTurn(p) /\ hasPassed' = out /\ UNCHANGED turnVars
      BY <1>4, WinClears DEF onPlayerDisconnect, ClearTable
    <2>2. q # p /\ q \in Seated \ away /\ Rest(q) \in Int /\ boardCards \in SUBSET Card
      BY <1>1, <2>1, RestBounded DEF IInv, TypeOK
    <2>3. CASE ~HoldsTurn(p) /\ hasPassed' = out /\ UNCHANGED turnVars
      BY <2>1, <2>2, <2>3, FlagKeepsNear
    <2>4. CASE ~InRange /\ nextTurnIndex(out, away, lastTurnOwnerId, boardCards)
      <3>1. Rest(q)' < Rest(q)
        BY <2>2, <2>4, FoundTurnIsNearer
      <3>2. Rest(q)' \in Int
        BY <1>1, RestInBoundsTwice DEF RestInBounds, Seated
      <3>3. QED
        BY <2>1, <2>2, <3>1, <3>2
    <2>5. CASE InRange /\ MayHoldTurn(p) /\ nextTurnIndex(out, away, lastTurnOwnerId, boardCards)
      <3>1. p = Holder
        BY <2>5 DEF MayHoldTurn
      <3>2. Rest(q)' < Rest(q)
        BY <1>1, <2>2, <2>5, <3>1, MoveBringsNearer
      <3>3. Rest(q)' \in Int
        BY <1>1, RestInBoundsTwice DEF RestInBounds, Seated
      <3>4. QED
        BY <2>1, <2>2, <3>2, <3>3
    <2>6. QED
      BY <2>1, <2>3, <2>4, <2>5
  <1>5. \/ \E p \in Player : \E cards \in SUBSET hand[p] : playCards(p, cards)
        \/ \E p \in Player : passTurn(p)
        \/ \E p \in Player : onPlayerDisconnect(p)
    <2>1. ASSUME NEW p \in Player PROVE ~addPlayer(p) /\ ~removePlayer(p)
      BY LeaveChangesSeats DEF addPlayer, isJoinAllowed
    <2>2. ASSUME NEW p \in Player, NEW ready \in BOOLEAN PROVE ~setPlayerReady(p, ready)
      BY DEF setPlayerReady
    <2>3. ~startPlayingPhase /\ ~Crash /\ \A p \in Player : ~PlayElsewhere(p)
      BY DEF startPlayingPhase, Crash, ClearTable, PlayElsewhere
    <2>4. QED
      BY <2>1, <2>2, <2>3 DEF Next, TurnTimeout
  <1>6. /\ Rest(q) \in Int /\ Rest(q)' \in Int
        /\ Wait(q) = Cardinality(Active) + Rest(q)
        /\ Wait(q)' = Cardinality(Active') + Rest(q)'
    <2>1. Rest(q) \in Int /\ Rest(q)' \in Int
      BY <1>1, RestInBoundsTwice DEF RestInBounds, Seated
    <2>2. Wait(q)' = Cardinality(Active') + Rest(q)'
      BY DEF Wait, Rest, Height
    <2>3. QED
      BY <2>1, <2>2, WaitIsSum
  <1>7. \/ Rest(q)' < Rest(q) /\ isDisconnected' = isDisconnected
        \/ /\ Rest(q)' <= Rest(q)
           /\ \E p \in Active : isDisconnected' = isDisconnected \cup {p}
    BY <1>2, <1>3, <1>4, <1>5
  <1>8. \A p \in Active : isDisconnected \cup {p} # isDisconnected
    BY DEF Active
  <1>9. TypeOK /\ SeatsDistinct
    BY DEF IInv
  <1>10. QED
    BY <1>6, <1>7, <1>8, <1>9, ActiveAfter

(* In every room, with any deck and number of users: while the seats stay, *)
(* each play, pass, timeout and broken connection brings every connected   *)
(* player nearer to the turn (nextTurnIndex and its callers).  Together    *)
(* with WaitIsBounded, nobody is passed over more than 3 * MaxPlayers + 31 *)
(* times: the safety half of EveryoneGetsTheTurn, without fairness.        *)
THEOREM TurnsComeNearer == Spec => TurnComesNearer
  <1> DEFINE Nearer ==
        \A p \in Active \ isDisconnected' :
          state = "PLAYING" /\ state' = "PLAYING" /\ seats' = seats =>
            HoldsTurn(p) \/ HoldsTurn(p)' \/ Wait(p)' < Wait(p)
  <1>1. ASSUME IInv, IInv', Next, ~UNCHANGED roomVars PROVE Nearer
    BY <1>1, StepBringsNearer
  <1>2. IInv /\ IInv' /\ [Next]_vars => [Nearer]_roomVars
    BY <1>1 DEF vars
  <1>3. QED
    BY <1>2, Invariance, PTL DEF Spec, TurnComesNearer

(* The count starts, at its highest, at three times the seats and the      *)
(* degrees of strength: 43 for the rooms of four that the code creates.    *)
THEOREM WaitIsBounded ==
  Spec => [](state = "PLAYING" =>
               \A p \in Active : Wait(p) \in 0..(3 * MaxPlayers + 31))
  <1> DEFINE Bounded ==
        state = "PLAYING" => \A p \in Active : Wait(p) \in 0..(3 * MaxPlayers + 31)
  <1>1. ASSUME IInv PROVE Bounded
    <2>1. ASSUME state = "PLAYING", NEW p \in Active
          PROVE  Wait(p) \in 0..(3 * MaxPlayers + 31)
      <3>1. Cardinality(Active) \in 0..MaxPlayers
        BY <1>1, WaitParts DEF IInv, Active
      <3>2. Rest(p) \in 0..(2 * MaxPlayers + 31)
        BY <1>1, <2>1, RestBounded DEF Active
      <3>3. QED
        BY <3>1, <3>2, WaitIsSum, GameAssumption
    <2>2. QED
      BY <2>1
  <1>2. IInv => Bounded
    BY <1>1
  <1>3. QED
    BY <1>2, Invariance, PTL
=============================================================================
