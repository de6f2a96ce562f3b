\* One handler in strict mode, nothing fails, one restart.
CONSTANTS
  alice = alice
  tmp = tmp
  near = near
  g1 = g1
  g2 = g2
  guest = guest
  h1 = h1
  h2 = h2
  NoBlock = NoBlock
  NoGrant = NoGrant
  Source = app
  Sweeper = sweeper
  Idle = Idle
  Names <- OneName
  TmpNames <- Nobody
  Blocks <- OneBlock
  GrantIds <- TwoGrants
  Clerks <- OneHandler
  Modes <- StrictMode
  MaxGrantFaults = 0
  MaxGrantRestarts = 0
  MaxCalls = 0
  Owners <- OneOwner
  Players <- OneHandler
  Bits4 = 2
  Prefix = 3
  Unrestricted = FALSE
  MaxDBFaults = 0
  MaxPlayRestarts = 1
SPECIFICATION Spec
INVARIANT PlaygroundGoesWithSession
CHECK_DEADLOCK FALSE
