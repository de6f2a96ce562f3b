\* Liveness up to the lock leak, and of the teardown: one session, two handlers
\* that contend for the lock.
CONSTANTS
  a = a
  b = b
  near = near
  far = far
  h1 = h1
  h2 = h2
  Reaper = reaper
  NoId = NoId
  NoCidr = NoCidr
  NoOne = NoOne
  Damaged = Damaged
  Absent = Absent
  Ids <- OneId
  Cidrs <- OneCidr
  Workers <- TwoHandlers
  MaxFaults = 1
  MaxRestarts = 1
SPECIFICATION Spec
PROPERTIES
  ReapedUnlessWedged
  CallReturnsUnlessWedged
  EndedIsTornDown
CHECK_DEADLOCK FALSE
