\* Two goroutines at a time, of one process or of two, three processes in all;
\* calls fail freely.
CONSTANTS
  p1 = p1
  p2 = p2
  s1 = s1
  s2 = s2
  k1 = k1
  k2 = k2
  strict = strict
  unrestricted = unrestricted
  Missing = Missing
  Empty = Empty
  Torn = Torn
  Unset = Unset
  Procs <- TwoProcs
  Sids <- TwoSids
  Keys <- TwoKeys
  Modes <- BothModes
  MaxRuns = 3
  MaxOthers = 1
SYMMETRY Interchangeable
SPECIFICATION Bounded
VIEW Seen
INVARIANTS
  StoreTypeOK
  SealedFilesOpen
  LastSaveStands
CHECK_DEADLOCK FALSE
