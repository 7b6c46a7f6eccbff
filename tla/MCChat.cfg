CONSTANTS
  Me = me
  Peer = {p1, p2}
  NoPeer = NoPeer
  Writer = {p1}
  MaxTheirs = 1
  MaxMine = 2
  Polls = 1
  MaxUnderWay = 2
SPECIFICATION Spec
INVARIANTS AckIsForTheAwaited WindowShowsTable
PROPERTIES TimeoutIsOwn WaitingEnds StopReturns
CHECK_DEADLOCK FALSE
