CONSTANTS
  User = {me, u1}
  NoUser = NoUser
  Me = me
  MaxUnderWay = 2
SPECIFICATION Spec
INVARIANTS SymmetricUnlessCut OwnChangesAreShown FriendsByConsent
PROPERTY ImplementsFriendship
