CONSTANTS
  Room = {r1, r2}
  NoRoom = NoRoom
  MaxOthers = 2
  MaxUnderWay = 2
SPECIFICATION Spec
CHECK_DEADLOCK FALSE
INVARIANT CountdownIsTrue
