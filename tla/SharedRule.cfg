\* The end of one session closes the rule of another with the same block.
CONSTANTS
  a = a
  b = b
  near = near
  far = far
  h1 = h1
  h2 = h2
  Reaper = reaper
  NoId = NoId
  NoCidr = NoCidr
  NoOne = NoOne
  Damaged = Damaged
  Absent = Absent
  Ids <- TwoIds
  Cidrs <- OneCidr
  Workers <- TwoHandlers
  MaxFaults = 0
  MaxRestarts = 1
SPECIFICATION Safety
INVARIANT
  LiveSessionHasRule
CHECK_DEADLOCK FALSE
