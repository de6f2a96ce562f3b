\* The read lock persist keeps stops the reaper for good.
CONSTANTS
  a = a
  b = b
  near = near
  far = far
  h1 = h1
  h2 = h2
  Reaper = reaper
  NoId = NoId
  NoCidr = NoCidr
  NoOne = NoOne
  Damaged = Damaged
  Absent = Absent
  Ids <- OneId
  Cidrs <- OneCidr
  Workers <- OneHandler
  MaxFaults = 0
  MaxRestarts = 0
SPECIFICATION Spec
PROPERTY
  SessionsEndOnExpiry
CHECK_DEADLOCK FALSE
