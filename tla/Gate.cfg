\* One session with two browsers, or two sessions with one.
CONSTANTS
  a = a
  b = b
  owner = owner
  guest = guest
  Reaper = reaper
  NoId = NoId
  NoToken = NoToken
  Ids <- TwoIds
  Clients <- Both
  Permitted <- AllowOwner
  MaxAttempts = 2
  Window = 2
  TokenAge = 1
  MaxTime = 4
  TokensTime = 2
SPECIFICATION Worlds
INVARIANTS
  TypeOK
  LockoutBound
  LockoutHasCause
  ServedIsVerified
  GateInv
CHECK_DEADLOCK FALSE
