CONSTANTS
  Conn = {c1, c2}
  User = {u1, u2}
  NoUser = NoUser
  NoConn = NoConn
  MaxInFlight = 2
SPECIFICATION Spec
SYMMETRY Symmetry
INVARIANTS NoDanglingSession BindingIsGranted
