CONSTANTS
  Player = {p1, p2, p3, p4}
  NoPlayer = NoPlayer
  MaxPlayers = 4
SPECIFICATION FairSpec
PROPERTY EveryoneGetsTheTurn
