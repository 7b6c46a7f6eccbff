CONSTANTS
  Player = {p1, p2, p3}
  NoPlayer = NoPlayer
  MaxPlayers = 3
  HandSize = 2
  RoomType = "dem_la"
  Bet = 1
  Balance = 15
  OtherAmounts = {}
  MaxElsewhere = 0
  MaxMoney = 45
  DeckValues <- ShortDeck
  Card <- MCCard
  OrderValue <- MCOrderValue
  InitialBalance <- MCInitialBalance
SPECIFICATION Spec
SYMMETRY Symmetry
INVARIANTS
  TypeOK NoCardTwice TurnHolderCanMove OwnerIsNotAsked NobodyPlaysWithoutCards
  HandHasOpponents CountdownHasPlayers
PROPERTIES
  MoneyIsConserved EverySeatedLoserPays TurnComesNearer ImplementsTurnOrder ImplementsRoom
