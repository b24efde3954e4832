CONSTANTS
  r1 = r1
  r2 = r2
  r3 = r3
  Reports = {r1, r2, r3}
  Capacity = 1
  None = None
SPECIFICATION FairSpec
INVARIANTS
  NothingIsSentOnAClosedQueue
  DrainSendsAll
  StoresOutliveRequests
PROPERTIES
  ProcessEnds
  ChatSpec
CHECK_DEADLOCK FALSE
