\* The session lapses between requireAuth and buildDashBase.
CONSTANTS
  a = a
  b = b
  owner = owner
  guest = guest
  Reaper = reaper
  NoId = NoId
  NoToken = NoToken
  Ids <- OneId
  Clients <- OwnerOnly
  Permitted <- AllowA
  MaxAttempts = 1
  Window = 1
  TokenAge = 2
  MaxTime = 2
SPECIFICATION Safety
INVARIANT
  DashboardAnswers
CHECK_DEADLOCK FALSE
