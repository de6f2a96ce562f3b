\* The daemon and a command, nothing fails.
CONSTANTS
  p1 = p1
  p2 = p2
  s1 = s1
  s2 = s2
  k1 = k1
  k2 = k2
  strict = strict
  unrestricted = unrestricted
  Missing = Missing
  Empty = Empty
  Torn = Torn
  Unset = Unset
  Procs <- TwoProcs
  Sids <- TwoSids
  Keys <- TwoKeys
  Modes <- BothModes
  MaxRuns = 2
  MaxOthers = 1
SYMMETRY Interchangeable
SPECIFICATION StoreSpec
INVARIANT EndedStaysEnded
CHECK_DEADLOCK FALSE
