CONSTANTS
  Player = {p1, p2}
  NoPlayer = NoPlayer
  MaxPlayers = 2
  HandSize = 3
  RoomType = "dat_cuoc"
  Bet = 1
  Balance = 2
  OtherAmounts <- OneEitherWay
  MaxElsewhere = 1
  MaxMoney = 3
  DeckValues <- ShortDeck
  Card <- MCCard
  OrderValue <- MCOrderValue
  InitialBalance <- MCInitialBalance
SPECIFICATION FairSpec
INVARIANT NobodyIsOverdrawn
PROPERTY ImplementsFairTurnOrder
