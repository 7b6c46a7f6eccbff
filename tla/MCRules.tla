------------------------------ MODULE MCRules ------------------------------
(***************************************************************************)
(* One trick as the rules alone allow it: any combination of a small deck  *)
(* may lead, and any combination that beats the one on the table may       *)
(* follow.  Checks the classification against the sorted-array reading of  *)
(* the code and the way canBeat lets combinations follow one another.       *)
(***************************************************************************)
EXTENDS SamLocRules

CONSTANT NumCards   \* size of the checked deck

MCCard == 1..NumCards

(* Four threes, three fours and fives, a six, a king, an ace and a two.    *)
MCOrderValue ==
  [c \in MCCard |-> <<3, 3, 3, 3, 4, 4, 4, 5, 5, 5, 6, 13, 14, 15>>[c]]

VARIABLE board

LegalPlays == {cards \in SUBSET Card : TypeOf(cards) # "INVALID"}

Init == board \in LegalPlays

(* Another combination is laid on the table. *)
Beat(cards) == canBeat(cards, board) /\ board' = cards

Next == \E cards \in LegalPlays : Beat(cards)

Spec == Init /\ [][Next]_board /\ WF_board(Next)

----------------------------------------------------------------------------
(* The code's own reading: sort the values, compare neighbours.  Cards of *)
(* one value are in the order of their numbers, and a card's place is the  *)
(* number of those before it.                                              *)
Before(c, d) ==
  \/ OrderValue[c] < OrderValue[d]
  \/ OrderValue[c] = OrderValue[d] /\ c < d

Rank(cards, c) == Cardinality({d \in cards : Before(d, c)})

Sorted(cards) ==
  [i \in 1..Cardinality(cards) |-> CHOOSE c \in cards : Rank(cards, c) = i - 1]

SortedType(cards) ==
  LET s == Sorted(cards)
  IN  LoopType([i \in DOMAIN s |-> OrderValue[s[i]]])

(* analyzeHand as the set-based definition states it and the loop over the *)
(* sorted values agree on every combination that follows or precedes the   *)
(* one on the table by one card (sam_loc_game.cpp, analyzeHand).           *)
TypeMatchesSortedReading ==
  \A c \in Card :
    /\ TypeOf(board \cup {c}) = SortedType(board \cup {c})
    /\ board # {c} => TypeOf(board \ {c}) = SortedType(board \ {c})

(* Every trick ends: combinations cannot be laid on one another for ever.  *)
(* canBeat is not transitive (a three loses to a two and the two to four   *)
(* of a kind, which may not be laid on the three), so this takes more than *)
(* comparing the power of neighbours.                                      *)
TrickEnds == <>[][FALSE]_board
============================================================================
