CONSTANTS
  c1 = c1
  c2 = c2
  c3 = c3
  h1 = h1
  h2 = h2
  p1 = p1
  p2 = p2
  r1 = r1
  Conns = {c1, c2, c3}
  Passwords = {p1, p2}
  Resets = {r1}
  MaxTokens = 4
  None = None
  Clients = {h1, h2}
  Account = Account
  Other = Other
  Headers <- MCHeaders
SPECIFICATION SceneSpec
SYMMETRY Alike
INVARIANTS
  OneRefreshKey
  RotatedOnce
  EndedForGood
  ResetEndsSession
  AnswersAreFresh
  AnswersAreForTheCaller
  
CHECK_DEADLOCK FALSE
