CONSTANTS
  User = {u1, u2, u3}
  RoomId = {r1, r2}
  NoRoom = NoRoom
  MaxPlayers = 3
SPECIFICATION Spec
SYMMETRY Symmetry
INVARIANTS WaitingSeatIsMapped MappedIsRecorded
