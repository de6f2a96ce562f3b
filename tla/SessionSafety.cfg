\* Two sessions with equal or different blocks, two handlers and the reaper,
\* one failing call and one restart.
CONSTANTS
  a = a
  b = b
  near = near
  far = far
  h1 = h1
  h2 = h2
  Reaper = reaper
  NoId = NoId
  NoCidr = NoCidr
  NoOne = NoOne
  Damaged = Damaged
  Absent = Absent
  Ids <- TwoIds
  Cidrs <- TwoCidrs
  Workers <- TwoHandlers
  MaxFaults = 1
  MaxRestarts = 1
SYMMETRY Interchangeable
SPECIFICATION Bounded
INVARIANTS
  TypeOK
  SnapshotIsCurrent
  AcknowledgedIsDurable
  DamageIsMomentary
  GrantIsTracked
  LiveSessionHasAccount
  RuleIsTracked
  ExclusiveRuleStaysOpen
PROPERTIES
  LifecycleSpec
  EndedOnDiskStaysEnded
CHECK_DEADLOCK FALSE
