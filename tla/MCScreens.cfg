CONSTANTS
  Room = {r1, r2}
  NoRoom = NoRoom
  MaxOthers = 2
  MaxUnderWay = 2
SPECIFICATION Spec
INVARIANTS RoomCallsReachTheirScreen SeatIsShown DealtInSeesTheTable ReadyButtonAgrees InvitePopupWasAsked
PROPERTY CountdownLeadsToGame
CHECK_DEADLOCK FALSE
