------------------------------- MODULE MCGame -------------------------------
(***************************************************************************)
(* A small room for TLC: a short deck and equal balances.                  *)
(***************************************************************************)
EXTENDS SamLocGame, TLC

CONSTANTS
  DeckValues,   \* order_value of each card of the deck
  Balance       \* every player's initial balance

MCCard == 1..Len(DeckValues)
MCOrderValue == [c \in MCCard |-> DeckValues[c]]
MCInitialBalance == [p \in Player |-> Balance]

(* What a player may lose or win elsewhere at a time.                      *)
OneEitherWay == {-1, 1}

Symmetry == Permutations(Player)

(* Two cards each for three players, or three for two: pairs, an ace and   *)
(* a two.                                                                  *)
ShortDeck == <<3, 3, 4, 4, 14, 15>>
=============================================================================
