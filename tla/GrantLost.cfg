\* One clerk in strict mode, nothing fails: the grants of history only.
CONSTANTS
  alice = alice
  tmp = tmp
  near = near
  g1 = g1
  g2 = g2
  guest = guest
  h1 = h1
  h2 = h2
  NoBlock = NoBlock
  NoGrant = NoGrant
  Source = app
  Sweeper = sweeper
  Idle = Idle
  Names <- OneName
  TmpNames <- Nobody
  Blocks <- OneBlock
  GrantIds <- TwoGrants
  Clerks <- OneHandler
  Modes <- StrictMode
  MaxGrantFaults = 0
  MaxGrantRestarts = 0
  MaxCalls = 3
  Owners <- OneOwner
  Players <- OneHandler
  Bits4 = 2
  Prefix = 3
  Unrestricted = FALSE
  MaxDBFaults = 0
  MaxPlayRestarts = 0
SPECIFICATION Spec
INVARIANT GrantsPersist
CHECK_DEADLOCK FALSE
