---------------------------- MODULE SamLocRules ----------------------------
(***************************************************************************)
(* The rules of a single move in Sam Loc: how a combination of cards is    *)
(* classified (SamLocGame::analyzeHand) and when it may be laid on the     *)
(* combination that is on the table (SamLocGame::canBeat).  A combination  *)
(* is a set of cards: the client sends distinct cards of the hand.         *)
(***************************************************************************)
EXTENDS Integers, FiniteSets, Sequences

CONSTANTS
  Card,        (* the cards of the master deck                             *)
  OrderValue   (* [Card -> 3..15]: column order_value, a two is worth 15   *)

ASSUME RulesAssumption ==
  /\ IsFiniteSet(Card)
  /\ OrderValue \in [Card -> 3..15]

HighestValue == 15   \* the two, which ends no sequence

Values(cards) == {OrderValue[c] : c \in cards}

(* The value of the last card once the hand is sorted by value. *)
Power(cards) == CHOOSE v \in Values(cards) : \A w \in Values(cards) : w <= v

SameValue(cards) == \A c, d \in cards : OrderValue[c] = OrderValue[d]

(* Wrong: a two may end a sequence.                                        *)
IsSequenceWithTwo(cards) ==
  /\ \A c, d \in cards : OrderValue[c] = OrderValue[d] => c = d
  /\ \A c \in cards : OrderValue[c] # Power(cards) => OrderValue[c] + 1 \in Values(cards)

(* Sorted, every card is worth one more than its predecessor, and no       *)
(* successor is a two.                                                     *)
IsSequence(cards) ==
  /\ \A c, d \in cards : OrderValue[c] = OrderValue[d] => c = d
  /\ \A c \in cards : OrderValue[c] # Power(cards) =>
       /\ OrderValue[c] + 1 \in Values(cards)
       /\ OrderValue[c] + 1 # HighestValue

HandType == {"INVALID", "SINGLE", "PAIR", "TRIPLE", "QUAD", "SEQUENCE"}

TypeOf(cards) ==
  LET n == Cardinality(cards) IN
  CASE n = 1                                    -> "SINGLE"
    [] n = 2 /\ SameValue(cards)                -> "PAIR"
    [] n = 3 /\ SameValue(cards)                -> "TRIPLE"
    [] n = 4 /\ SameValue(cards)                -> "QUAD"
    [] n >= 3 /\ ~SameValue(cards) /\ IsSequence(cards) -> "SEQUENCE"
    [] OTHER                                    -> "INVALID"

(* The same as the code reads it off the sorted values.                    *)
LoopType(values) ==
  LET n == Len(values) IN
  IF n = 1 THEN "SINGLE"
  ELSE IF n = 2 /\ values[1] = values[2] THEN "PAIR"
  ELSE IF n = 3 /\ values[1] = values[3] THEN "TRIPLE"
  ELSE IF n = 4 /\ values[1] = values[4] THEN "QUAD"
  ELSE IF /\ n >= 3
          /\ \A i \in 1..n - 1 : values[i + 1] = values[i] + 1 /\ values[i + 1] # HighestValue
       THEN "SEQUENCE" ELSE "INVALID"

analyzeHand(cards) ==
  [type  |-> TypeOf(cards),
   power |-> IF cards = {} THEN 0 ELSE Power(cards),
   count |-> Cardinality(cards)]

(* Wrong: an equal combination beats too.                                  *)
canBeatOrEqual(cards, board) ==
  /\ TypeOf(cards) # "INVALID"
  /\ \/ board = {}
     \/ /\ TypeOf(cards) = TypeOf(board)
        /\ Cardinality(cards) = Cardinality(board)
        /\ Power(cards) >= Power(board)

(* May `cards` be laid on `board`?  On an empty table any combination may; *)
(* four of a kind also beats a single two.                                 *)
canBeat(cards, board) ==
  LET new == analyzeHand(cards)
      old == analyzeHand(board)
  IN  /\ new.type # "INVALID"
      /\ \/ board = {}
         \/ old.type = "SINGLE" /\ old.power = HighestValue /\ new.type = "QUAD"
         \/ /\ new.type = old.type
            /\ new.count = old.count
            /\ new.power > old.power

(* How strong a combination is: by its value, and four of a kind above all. *)
Strength(cards) == Power(cards) + IF TypeOf(cards) = "QUAD" THEN HighestValue ELSE 0
============================================================================
