CONSTANTS
  r1 = r1
  r2 = r2
  i1 = i1
  i2 = i2
  Readers = {r1, r2}
  Instances = {i1, i2}
  MaxMutations = 2
  None = None
SPECIFICATION FairSpec
INVARIANTS
  FreshAnswers
PROPERTY ReadsEnd
CHECK_DEADLOCK FALSE
