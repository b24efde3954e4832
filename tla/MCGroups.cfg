CONSTANTS
  own = own
  a1 = a1
  a2 = a2
  b1 = b1
  o = o
  a = a
  b = b
  i1 = i1
  i2 = i2
  l1 = l1
  l2 = l2
  c1 = c1
  c2 = c2
  Users = {o, a, b}
  Members = {own, a1, a2, b1}
  UserOf <- MCUserOf
  Owner = own
  Invitations = {i1, i2}
  Locations = {l1, l2}
  Conns = {c1, c2}
  None = None
SPECIFICATION SceneSpec
SYMMETRY Symmetry
INVARIANTS
  MembershipsAreAccepted
  HoldersAreEmployees
PROPERTIES
  DeletionIsComplete
CHECK_DEADLOCK FALSE
