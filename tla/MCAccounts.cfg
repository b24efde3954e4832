CONSTANTS
  c1 = c1
  c2 = c2
  e1 = e1
  e2 = e2
  e3 = e3
  u1 = u1
  u2 = u2
  u3 = u3
  m1 = m1
  m2 = m2
  m3 = m3
  Requests = {c1, c2}
  Emails = {e1, e2, e3}
  Users = {u1, u2, u3}
  Names = {m1, m2, m3}
  MaxAttempts = 2
  MaxCodes = 2
  None = None
SPECIFICATION SceneSpec
SYMMETRY Alike
INVARIANTS
  CodesWorkOnce
  GuessesAreBounded
  SubjectsMatch
  IdentitiesAreUnique
  
  ResetsMatch
CHECK_DEADLOCK FALSE
